---- MODULE Spec2Model ----
(***************************************************************************)
(* Write serializers of temba/api/serializers.py.                          *)
(*                                                                         *)
(* Strings are sequences of one-character strings, so that "" is <<>> and  *)
(* Python truthiness of a string is Len(s) > 0.  UUIDs are sequences of    *)
(* naturals: <<>> is the empty string, <<i>> the uuid of row i of a table. *)
(* An optional input field is described by the request's `present` set.    *)
(***************************************************************************)
EXTENDS Integers, Sequences, FiniteSets, TLC

VARIABLES db, cur

vars == <<db, cur>>

(***************************************************************************)
(* Bounds of the model                                                     *)
(***************************************************************************)
MaxLabels == 2
MaxContacts == 3
MaxGroups == 3
MaxCampaigns == 3
MaxBroadcasts == 2
MaxStarts == 1
MaxFlows == 6
MaxFields == 4
MaxEvents == 3

Orgs == {"A", "B"}

Truthy(s) == Len(s) > 0

SeqToSet(s) == {s[i] : i \in 1..Len(s)}

RECURSIVE SetToSeq(_)
SetToSeq(S) ==
    IF S = {} THEN <<>>
    ELSE LET x == CHOOSE y \in S : TRUE IN <<x>> \o SetToSeq(S \ {x})

Has(data, f) == f \in data.present

(***************************************************************************)
(* Error map of a serializer: a set of (field, kind) entries.              *)
(***************************************************************************)
NonField == "non_field_errors"

Err(f, k) == [field |-> f, kind |-> k]

NoErrors == {}

ErrFields(errs) == {e.field : e \in errs}

(***************************************************************************)
(* WriteSerializer.restore_fields: a body that is not a dict records the   *)
(* structural error and yields empty attrs.                                *)
(***************************************************************************)
IsDict(data) == data.shape = "dict"

StructuralErrorsBuggy(data) == NoErrors

StructuralErrors(data) ==
    IF ~IsDict(data) THEN {Err(NonField, "structural")} ELSE NoErrors

(***************************************************************************)
(* Serializer.from_native: the stages of one write.  A structural error    *)
(* ends the request; the cross-field validator runs only when the per-field*)
(* stage left no error; restore_object runs only when the map is empty.    *)
(* `fieldStage` is [attrs, errs, db], `cross` a set of errors and `mutate` *)
(* [db, object, crash].                                                    *)
(***************************************************************************)
NoObject == 0

Outcome(errs, d, obj, ran, crash) ==
    [errors |-> errs, db |-> d, object |-> obj, ran |-> ran, crash |-> crash]

from_native_mixed(d0, structural, fieldStage, cross, mutate) ==
    IF structural # NoErrors
    THEN Outcome(structural, d0, NoObject, {}, "")
    ELSE IF fieldStage.crash # ""
    THEN Outcome(fieldStage.errs, fieldStage.db, NoObject, {"fields"}, fieldStage.crash)
    ELSE IF fieldStage.errs \cup cross # NoErrors
    THEN Outcome(fieldStage.errs \cup cross, fieldStage.db, NoObject, {"fields", "validate"}, "")
    ELSE Outcome(NoErrors, mutate.db, mutate.object,
                 {"fields", "validate", "restore_object"}, mutate.crash)

from_native(d0, structural, fieldStage, cross, mutate) ==
    IF structural # NoErrors
    THEN Outcome(structural, d0, NoObject, {}, "")
    ELSE IF fieldStage.crash # ""
    THEN Outcome(fieldStage.errs, fieldStage.db, NoObject, {"fields"}, fieldStage.crash)
    ELSE IF fieldStage.errs # NoErrors
    THEN Outcome(fieldStage.errs, fieldStage.db, NoObject, {"fields"}, "")
    ELSE IF cross # NoErrors
    THEN Outcome(cross, fieldStage.db, NoObject, {"fields", "validate"}, "")
    ELSE Outcome(NoErrors, mutate.db, mutate.object,
                 {"fields", "validate", "restore_object"}, mutate.crash)

(***************************************************************************)
(* Labels and messages (temba.msgs.models)                                 *)
(***************************************************************************)
Visible == "V"
Archived == "A"
Deleted == "D"
Incoming == "I"
Outgoing == "O"

LabelIds(d) == 1..Len(d.labels)

Label_is_valid_name(name) ==
    /\ Truthy(name)
    /\ Head(name) \notin {"+", "-"}

LabelByName(d, org, name) ==
    {i \in LabelIds(d) : d.labels[i].org = org /\ d.labels[i].name = name}

LabelByUuid(d, org, uuid) ==
    {i \in LabelIds(d) : d.labels[i].org = org /\ d.labels[i].uuid = uuid}

\* Label.get_or_create(org, user, name): [db, id]
Label_get_or_create(d, org, name) ==
    LET found == LabelByName(d, org, name) IN
    IF found # {}
    THEN [db |-> d, id |-> CHOOSE i \in found : \A j \in found : i <= j]
    ELSE LET n == Len(d.labels) + 1 IN
         [db |-> [d EXCEPT !.labels =
                     Append(@, [org |-> org, name |-> name, uuid |-> <<n>>, count |-> 0])],
          id |-> n]

BulkMsgs_anydirection(d, org, ids) ==
    {m \in DOMAIN d.msgs : m \in ids /\ d.msgs[m].org = org}

\* Msg.objects.filter(org=self.org, direction=INCOMING, pk__in=msg_ids)
BulkMsgs(d, org, ids) ==
    {m \in DOMAIN d.msgs : m \in ids /\ d.msgs[m].org = org /\ d.msgs[m].direction = Incoming}

toggle_label_raw(d, l, ms, add) ==
    LET changed == {m \in ms : (l \in d.msgs[m].labels) # add}
        delta == Cardinality(changed)
    IN [d EXCEPT
          !.msgs = [m \in DOMAIN @ |->
                      IF m \in changed
                      THEN [@[m] EXCEPT !.labels = IF add THEN @ \cup {l} ELSE @ \ {l}]
                      ELSE @[m]],
          !.labels[l].count = IF add THEN @ + delta ELSE @ - delta]

\* Label.toggle_label(msgs, add): each message gains or loses the label; the
\* visible count follows the visible messages that changed.
toggle_label(d, l, ms, add) ==
    LET changed == {m \in ms : (l \in d.msgs[m].labels) # add}
        delta == Cardinality({m \in changed : d.msgs[m].visibility = Visible})
    IN [d EXCEPT
          !.msgs = [m \in DOMAIN @ |->
                      IF m \in changed
                      THEN [@[m] EXCEPT !.labels = IF add THEN @ \cup {l} ELSE @ \ {l}]
                      ELSE @[m]],
          !.labels[l].count = IF add THEN @ + delta ELSE @ - delta]

LabelVisibleCount(ms, l) ==
    Cardinality({m \in DOMAIN ms : l \in ms[m].labels /\ ms[m].visibility = Visible})

Recount(d, ms) ==
    [d EXCEPT !.msgs = ms,
              !.labels = [l \in DOMAIN @ |-> [@[l] EXCEPT !.count = LabelVisibleCount(ms, l)]]]

\* Msg.archive(): a visible message becomes archived
Msg_archive(m) == IF m.visibility = Visible THEN [m EXCEPT !.visibility = Archived] ELSE m

\* Msg.restore(): an archived message becomes visible
Msg_restore(m) == IF m.visibility = Archived THEN [m EXCEPT !.visibility = Visible] ELSE m

\* Msg.release(): the message is deleted and loses its labels
Msg_release(m) == [m EXCEPT !.visibility = Deleted, !.labels = {}]

Transition(action, m) ==
    CASE action = "archive" -> Msg_archive(m)
      [] action = "unarchive" -> Msg_restore(m)
      [] action = "delete" -> Msg_release(m)
      [] OTHER -> m

(***************************************************************************)
(* MsgBulkActionSerializer                                                 *)
(***************************************************************************)
BulkActions == {"label", "unlabel", "archive", "unarchive", "delete"}

\* attrs['label'] is missing, the raw input string, or a resolved Label
LabelMissing == [kind |-> "missing", id |-> 0]
LabelRaw == [kind |-> "raw", id |-> 0]
LabelObj(i) == [kind |-> "obj", id |-> i]

\* restore_fields: required fields and primitive kinds
Bulk_restore_fields(data) ==
    {Err(f, "required") : f \in {"messages", "action"} \ data.present}
    \cup {Err(f, "type") : f \in {"messages"} \cap data.badtype \cap data.present}

Bulk_validate_action(data) ==
    IF data.action \notin BulkActions THEN {Err("action", "invalid")} ELSE NoErrors

\* validate_label: [db, label, errs]; a named label is created when missing
Bulk_validate_label(d, org, data) ==
    IF Has(data, "label") /\ Truthy(data.label)
    THEN IF ~Label_is_valid_name(data.label)
         THEN [db |-> d, label |-> LabelRaw, errs |-> {Err("label", "invalid")}]
         ELSE LET r == Label_get_or_create(d, org, data.label) IN
              [db |-> r.db, label |-> LabelObj(r.id), errs |-> NoErrors]
    ELSE [db |-> d,
          label |-> IF Has(data, "label") THEN LabelRaw ELSE LabelMissing,
          errs |-> NoErrors]

\* validate_label_uuid: [label, errs], given attrs['label'] so far
Bulk_validate_label_uuid(d, org, data, label) ==
    IF Has(data, "label_uuid") /\ Truthy(data.label_uuid)
    THEN LET found == LabelByUuid(d, org, data.label_uuid) IN
         IF found = {}
         THEN [label |-> label, errs |-> {Err("label_uuid", "not_found")}]
         ELSE [label |-> LabelObj(CHOOSE i \in found : TRUE), errs |-> NoErrors]
    ELSE [label |-> label, errs |-> NoErrors]

\* perform_validation, per-field part: validate_<field> of every field that
\* restore_fields left without an error, in declaration order
Bulk_fields(d, org, data) ==
    LET e0 == Bulk_restore_fields(data)
        e1 == IF "action" \in ErrFields(e0) THEN NoErrors ELSE Bulk_validate_action(data)
        vl == Bulk_validate_label(d, org, data)
        vu == Bulk_validate_label_uuid(vl.db, org, data, vl.label)
    IN [attrs |-> [label |-> vu.label],
        errs |-> e0 \cup e1 \cup vl.errs \cup vu.errs,
        db |-> vl.db,
        crash |-> ""]

\* validate(attrs)
Bulk_validate(data, attrs) ==
    IF /\ data.action \in {"label", "unlabel"}
       /\ ~(attrs.label.kind # "missing" \/ Has(data, "label_uuid"))
    THEN {Err(NonField, "cross")}
    ELSE NoErrors

\* restore_object(attrs)
Bulk_restore_object(d, org, data, attrs) ==
    LET ms == BulkMsgs(d, org, data.messages) IN
    IF data.action \in {"label", "unlabel"}
    THEN IF attrs.label.kind = "obj"
         THEN [db |-> toggle_label(d, attrs.label.id, ms, data.action = "label"),
               object |-> NoObject, crash |-> ""]
         ELSE [db |-> d, object |-> NoObject,
               crash |-> IF attrs.label.kind = "raw" THEN "AttributeError" ELSE "KeyError"]
    ELSE [db |-> Recount(d, [m \in DOMAIN d.msgs |->
                                IF m \in ms THEN Transition(data.action, d.msgs[m])
                                ELSE d.msgs[m]]),
          object |-> NoObject, crash |-> ""]

Bulk_from_native(d, org, data) ==
    LET fs == Bulk_fields(d, org, data) IN
    from_native(d, StructuralErrors(data), fs,
                Bulk_validate(data, fs.attrs),
                Bulk_restore_object(fs.db, org, data, fs.attrs))

(***************************************************************************)
(* Addressing (ContactURN, phonenumbers)                                   *)
(***************************************************************************)
TEL_SCHEME == <<"tel">>

Schemes == {<<"tel">>, <<"twitter">>}

Digits == {"1", "2"}

LowerSym(c) ==
    CASE c = "B" -> "b"
      [] c = "E" -> "e"
      [] c = "F" -> "f"
      [] OTHER -> c

Lower(s) == [i \in 1..Len(s) |-> LowerSym(s[i])]

RECURSIVE Strip(_, _)
Strip(s, drop) ==
    IF s = <<>> THEN <<>>
    ELSE IF Head(s) \in drop THEN Strip(Tail(s), drop)
    ELSE <<Head(s)>> \o Strip(Tail(s), drop)

Addr(scheme, path) == [scheme |-> scheme, path |-> path]

Seps(raw) == {i \in 1..Len(raw) : raw[i] = ":"}

FirstSep(raw) == CHOOSE i \in Seps(raw) : \A j \in Seps(raw) : i <= j

\* ContactURN.parse_urn(urn): ValueError without a separator or a scheme
CanParse(raw) == Seps(raw) # {} /\ FirstSep(raw) > 1

parse_urn(raw) ==
    Addr(SubSeq(raw, 1, FirstSep(raw) - 1), SubSeq(raw, FirstSep(raw) + 1, Len(raw)))

\* phonenumbers: formatting characters are dropped; a national number takes
\* the country hint's prefix
NormalizeTel(path, hasCountry) ==
    LET p == Strip(path, {" ", "-"}) IN
    IF p # <<>> /\ Head(p) # "+" /\ hasCountry THEN <<"+">> \o p ELSE p

\* ContactURN.normalize_urn(scheme, path, country)
normalize_urn(scheme, path, hasCountry) ==
    IF scheme = TEL_SCHEME
    THEN Addr(scheme, NormalizeTel(path, hasCountry))
    ELSE Addr(scheme, Lower(Strip(path, {" "})))

IsE164(path) ==
    /\ Len(path) >= 2
    /\ Head(path) = "+"
    /\ \A i \in 2..Len(path) : path[i] \in Digits

\* ContactURN.validate_urn(scheme, path)
validate_urn(scheme, path) ==
    /\ scheme \in Schemes
    /\ IF scheme = TEL_SCHEME THEN IsE164(path) ELSE path # <<>>

\* phonenumbers.parse + is_possible_number
PhoneOk(phone, hasCountry) == IsE164(NormalizeTel(phone, hasCountry))

\* phonenumbers.format_number(..., E164)
E164(phone, hasCountry) == NormalizeTel(phone, hasCountry)

\* "%s:%s" % urn compared with iexact
IExact(a, b) == Lower(a.scheme) = Lower(b.scheme) /\ Lower(a.path) = Lower(b.path)

(***************************************************************************)
(* Contacts, groups and contact fields (temba.contacts.models)             *)
(***************************************************************************)
ContactIds(d) == 1..Len(d.contacts)

GroupIds(d) == 1..Len(d.groups)

FieldIds(d) == 1..Len(d.fields)

Min(S) == CHOOSE i \in S : \A j \in S : i <= j

\* Contact.objects.filter(org=org, uuid=uuid, is_active=True)
ContactByUuid(d, org, uuid) ==
    {c \in ContactIds(d) : d.contacts[c].org = org /\ d.contacts[c].uuid = uuid
                           /\ d.contacts[c].active}

\* ContactGroup.user_groups.filter(uuid=uuid, org=org, is_active=True)
GroupByUuid(d, org, uuid) ==
    {g \in GroupIds(d) : d.groups[g].org = org /\ d.groups[g].uuid = uuid /\ d.groups[g].active}

GroupByName(d, org, name) ==
    {g \in GroupIds(d) : d.groups[g].org = org /\ d.groups[g].name = name /\ d.groups[g].active}

\* ContactGroup.is_valid_name(name)
Group_is_valid_name(name) == Truthy(name) /\ Head(name) \notin {"+", "-"}

\* ContactGroup.get_or_create(org, user, name): [db, id]
Group_get_or_create(d, org, name) ==
    LET found == GroupByName(d, org, name) IN
    IF found # {}
    THEN [db |-> d, id |-> Min(found)]
    ELSE LET n == Len(d.groups) + 1 IN
         [db |-> [d EXCEPT !.groups =
                     Append(@, [org |-> org, name |-> name, uuid |-> <<n>>, active |-> TRUE])],
          id |-> n]

RECURSIVE Groups_get_or_create(_, _, _)
\* [ContactGroup.get_or_create(org, user, name) for name in group_names]: [db, ids]
Groups_get_or_create(d, org, names) ==
    IF names = <<>> THEN [db |-> d, ids |-> {}]
    ELSE LET r == Group_get_or_create(d, org, Head(names))
             rest == Groups_get_or_create(r.db, org, Tail(names))
         IN [db |-> rest.db, ids |-> {r.id} \cup rest.ids]

\* the active contacts of org that hold the address
Holders(d, org, a) ==
    {c \in ContactIds(d) : d.contacts[c].org = org /\ d.contacts[c].active
                           /\ a \in d.contacts[c].urns}

OrgHasCountry(d, org) ==
    \E ch \in DOMAIN d.channels : d.channels[ch].org = org /\ d.channels[ch].active

NormAll(d, org, urns) ==
    [i \in 1..Len(urns) |-> normalize_urn(urns[i].scheme, urns[i].path, OrgHasCountry(d, org))]

\* the address is attached to contact c and to no other contact of its org
Attach(contacts, c, addrs) ==
    [x \in DOMAIN contacts |->
        IF x = c THEN [contacts[x] EXCEPT !.urns = @ \cup addrs]
        ELSE IF contacts[x].org = contacts[c].org
        THEN [contacts[x] EXCEPT !.urns = @ \ addrs]
        ELSE contacts[x]]

NewContact(org, n) ==
    [org |-> org, uuid |-> <<n>>, active |-> TRUE, name |-> <<>>, language |-> <<>>,
     urns |-> {}, groups |-> {}, fields |-> {}]

\* Contact.get_or_create(org, user, urns=urns): the contact that holds one of
\* the addresses, else a new one; addresses nobody holds are attached. [db, id]
Contact_get_or_create(d, org, urns) ==
    LET norm == NormAll(d, org, urns)
        held == {i \in 1..Len(norm) : Holders(d, org, norm[i]) # {}}
        free == {norm[i] : i \in (1..Len(norm)) \ held}
    IN IF held # {}
       THEN LET c == Min(Holders(d, org, norm[Min(held)])) IN
            [db |-> [d EXCEPT !.contacts = Attach(@, c, free)], id |-> c]
       ELSE LET n == Len(d.contacts) + 1 IN
            [db |-> [d EXCEPT !.contacts =
                        Attach(Append(@, NewContact(org, n)), n, free)],
             id |-> n]

Contact_update_urns_shared(d, c, urns) ==
    [d EXCEPT !.contacts[c].urns = SeqToSet(NormAll(d, d.contacts[c].org, urns))]

\* Contact.update_urns(urns): the contact holds exactly these addresses
Contact_update_urns(d, c, urns) ==
    LET norm == SeqToSet(NormAll(d, d.contacts[c].org, urns)) IN
    [d EXCEPT !.contacts = Attach([@ EXCEPT ![c].urns = {}], c, norm)]

\* Contact.update_groups(groups)
Contact_update_groups(d, c, gs) == [d EXCEPT !.contacts[c].groups = gs]

\* ContactField.objects.filter(org=org, key__iexact=key, is_active=True)
FieldByKeyIExact(d, org, key) ==
    {f \in FieldIds(d) : d.fields[f].org = org /\ d.fields[f].active
                         /\ Lower(d.fields[f].key) = Lower(key)}

\* ContactField.get_by_label(org, label)
FieldByLabel(d, org, label) ==
    {f \in FieldIds(d) : d.fields[f].org = org /\ d.fields[f].active
                         /\ Lower(d.fields[f].label) = Lower(label)}

\* Contact.set_field(key, value)
Contact_set_field(d, c, key, value) ==
    [d EXCEPT !.contacts[c].fields =
        {p \in @ : p.key # key} \cup {[key |-> key, value |-> value]}]

(***************************************************************************)
(* ContactWriteSerializer                                                  *)
(***************************************************************************)
\* org.languages: the iso codes configured for each org
OrgLanguages == [A |-> {<<"e">>}, B |-> {<<"f">>}]

RECURSIVE UrnsError(_)
\* validate_urns: the first URN that does not parse or is not valid
UrnsError(raws) ==
    IF raws = <<>> THEN NoErrors
    ELSE IF ~CanParse(Head(raws)) THEN {Err("urns", "parse")}
    ELSE LET p == parse_urn(Head(raws))
             n == normalize_urn(p.scheme, p.path, FALSE)
         IN IF ~validate_urn(n.scheme, n.path) THEN {Err("urns", "invalid")}
            ELSE UrnsError(Tail(raws))

NormUrns(raws) ==
    [i \in 1..Len(raws) |->
        LET p == parse_urn(raws[i]) IN normalize_urn(p.scheme, p.path, FALSE)]

\* restore_fields: primitive kinds
Contact_restore_fields(data) ==
    {Err(f, "type") : f \in data.badtype \cap data.present}

Contact_validate_uuid_inactive(d, org, data) ==
    IF Has(data, "uuid") /\ Truthy(data.uuid)
          /\ ~\E c \in ContactIds(d) : d.contacts[c].org = org /\ d.contacts[c].uuid = data.uuid
    THEN {Err("uuid", "not_found")} ELSE NoErrors

\* validate_uuid
Contact_validate_uuid(d, org, data) ==
    IF Has(data, "uuid") /\ Truthy(data.uuid) /\ ContactByUuid(d, org, data.uuid) = {}
    THEN {Err("uuid", "not_found")} ELSE NoErrors

\* validate_language: the list is that of self.user.get_org()
Contact_validate_language(userOrg, data) ==
    IF Has(data, "language") /\ Truthy(data.language)
    THEN IF OrgLanguages[userOrg] = {} THEN {Err("language", "none")}
         ELSE IF Lower(data.language) \notin OrgLanguages[userOrg]
         THEN {Err("language", "unsupported")}
         ELSE NoErrors
    ELSE NoErrors

\* validate_urns
Contact_validate_urns(data) ==
    IF Has(data, "urns") THEN UrnsError(data.urns) ELSE NoErrors

\* validate_group_uuids
Contact_validate_group_uuids(d, org, data) ==
    IF Has(data, "group_uuids")
          /\ \E i \in 1..Len(data.group_uuids) : GroupByUuid(d, org, data.group_uuids[i]) = {}
    THEN {Err("group_uuids", "not_found")} ELSE NoErrors

\* validate_fields: every key is the key or the label of a field of the org
Contact_validate_fields(d, org, data) ==
    IF Has(data, "fields")
          /\ \E p \in data.fields :
                ~\E f \in FieldIds(d) :
                    /\ d.fields[f].org = org /\ d.fields[f].active
                    /\ (d.fields[f].key = p.key \/ d.fields[f].label = p.key)
    THEN {Err("fields", "invalid")} ELSE NoErrors

\* validate_phone
Contact_validate_phone(data) ==
    IF Has(data, "phone") /\ Truthy(data.phone) /\ ~PhoneOk(data.phone, FALSE)
    THEN {Err("phone", "invalid")} ELSE NoErrors

\* validate_groups
Contact_validate_groups(data) ==
    IF Has(data, "groups")
          /\ \E i \in 1..Len(data.groups) : ~Group_is_valid_name(data.groups[i])
    THEN {Err("groups", "invalid")} ELSE NoErrors

\* the working attribute set the per-field validators leave
Contact_attrs(d, org, data) ==
    [uuid |-> IF Has(data, "uuid") THEN data.uuid ELSE <<>>,
     hasUrns |-> Has(data, "urns"),
     urns |-> IF Has(data, "urns") THEN NormUrns(data.urns) ELSE <<>>,
     hasPhone |-> Has(data, "phone"),
     phone |-> IF Has(data, "phone") THEN E164(data.phone, FALSE) ELSE <<>>,
     hasName |-> Has(data, "name"),
     name |-> data.name,
     hasLanguage |-> Has(data, "language"),
     language |-> IF Has(data, "language") THEN Lower(data.language) ELSE <<>>,
     hasFields |-> Has(data, "fields"),
     fields |-> data.fields,
     hasGroupUuids |-> Has(data, "group_uuids"),
     group_uuids |-> IF Has(data, "group_uuids")
                     THEN {Min(GroupByUuid(d, org, data.group_uuids[i])) :
                              i \in 1..Len(data.group_uuids)}
                     ELSE {},
     hasGroups |-> Has(data, "groups"),
     groups |-> IF Has(data, "groups") THEN data.groups ELSE <<>>]

Contact_fields(d, org, userOrg, data) ==
    LET e0 == Contact_restore_fields(data)
        skip == ErrFields(e0)
        errs == e0
            \cup (IF "uuid" \in skip THEN {} ELSE Contact_validate_uuid(d, org, data))
            \cup (IF "language" \in skip THEN {} ELSE Contact_validate_language(userOrg, data))
            \cup (IF "urns" \in skip THEN {} ELSE Contact_validate_urns(data))
            \cup (IF "group_uuids" \in skip THEN {} ELSE Contact_validate_group_uuids(d, org, data))
            \cup (IF "fields" \in skip THEN {} ELSE Contact_validate_fields(d, org, data))
            \cup (IF "phone" \in skip THEN {} ELSE Contact_validate_phone(data))
            \cup (IF "groups" \in skip THEN {} ELSE Contact_validate_groups(data))
    IN [attrs |-> IF errs = NoErrors THEN Contact_attrs(d, org, data)
                  ELSE Contact_attrs(d, org, [data EXCEPT !.present = {}]),
        errs |-> errs, db |-> d, crash |-> ""]

\* Contact.objects.filter(org=self.org).filter(urn_query).exclude(uuid=uuid)
OtherContacts(d, org, uuid, urns) ==
    {c \in ContactIds(d) :
        /\ d.contacts[c].org = org
        /\ d.contacts[c].uuid # uuid
        /\ \E i \in 1..Len(urns) : \E a \in d.contacts[c].urns : IExact(a, urns[i])}

\* the urns the uuid branch of validate checks
CheckedUrns(attrs) ==
    IF Truthy(attrs.phone) THEN <<Addr(TEL_SCHEME, attrs.phone)>> ELSE attrs.urns

\* validate(attrs)
Contact_validate_nocheck(d, org, attrs) ==
    IF \/ (~Truthy(attrs.urns) /\ ~Truthy(attrs.phone) /\ ~Truthy(attrs.uuid))
       \/ (Truthy(attrs.urns) /\ Truthy(attrs.phone))
    THEN {Err(NonField, "one_of")}
    ELSE IF attrs.group_uuids # {} /\ Truthy(attrs.groups)
    THEN {Err(NonField, "groups")}
    ELSE NoErrors

Contact_validate_anyof(d, org, attrs) ==
    IF Truthy(attrs.urns) /\ Truthy(attrs.phone)
    THEN {Err(NonField, "one_of")}
    ELSE IF attrs.group_uuids # {} /\ Truthy(attrs.groups)
    THEN {Err(NonField, "groups")}
    ELSE IF Truthy(attrs.uuid) /\ OtherContacts(d, org, attrs.uuid, CheckedUrns(attrs)) # {}
    THEN {Err(NonField, "used")}
    ELSE NoErrors

Contact_validate_noexcl(d, org, attrs) ==
    IF ~Truthy(attrs.urns) /\ ~Truthy(attrs.phone) /\ ~Truthy(attrs.uuid)
    THEN {Err(NonField, "one_of")}
    ELSE IF attrs.group_uuids # {} /\ Truthy(attrs.groups)
    THEN {Err(NonField, "groups")}
    ELSE IF Truthy(attrs.uuid) /\ OtherContacts(d, org, attrs.uuid, CheckedUrns(attrs)) # {}
    THEN {Err(NonField, "used")}
    ELSE NoErrors

Contact_validate(d, org, attrs) ==
    IF \/ (~Truthy(attrs.urns) /\ ~Truthy(attrs.phone) /\ ~Truthy(attrs.uuid))
       \/ (Truthy(attrs.urns) /\ Truthy(attrs.phone))
    THEN {Err(NonField, "one_of")}
    ELSE IF attrs.group_uuids # {} /\ Truthy(attrs.groups)
    THEN {Err(NonField, "groups")}
    ELSE IF Truthy(attrs.uuid) /\ OtherContacts(d, org, attrs.uuid, CheckedUrns(attrs)) # {}
    THEN {Err(NonField, "used")}
    ELSE NoErrors

RECURSIVE SetFields(_, _, _, _)
\* the fields loop of restore_object: by key first, then by label
SetFields(d, org, c, todo) ==
    IF todo = {} THEN d
    ELSE LET p == CHOOSE x \in todo : TRUE
             byKey == FieldByKeyIExact(d, org, p.key)
             byLabel == FieldByLabel(d, org, p.key)
             d1 == IF byKey # {} THEN Contact_set_field(d, c, d.fields[Min(byKey)].key, p.value)
                   ELSE IF byLabel # {}
                   THEN Contact_set_field(d, c, d.fields[Min(byLabel)].key, p.value)
                   ELSE d
         IN SetFields(d1, org, c, todo \ {p})

\* restore_object, lines 512-530: the contact the write applies to. An update
\* keeps the addresses when neither urns nor phone is given, else replaces
\* them; a create is Contact.get_or_create by the addresses. [db, id]
Contact_resolve_create(d, org, attrs) ==
    LET urns == IF Truthy(attrs.phone) THEN <<Addr(TEL_SCHEME, attrs.phone)>>
                ELSE attrs.urns
        n == Len(d.contacts) + 1
    IN [db |-> [d EXCEPT !.contacts =
                   Append(@, [NewContact(org, n) EXCEPT
                                 !.urns = SeqToSet(NormAll(d, org, urns))])],
        id |-> n]

Contact_resolve(d, org, attrs) ==
    LET isUpdate == Truthy(attrs.uuid)
        contact0 == IF isUpdate THEN Min(ContactByUuid(d, org, attrs.uuid)) ELSE NoObject
        keep == ~attrs.hasUrns /\ ~attrs.hasPhone
        urns == IF Truthy(attrs.phone) THEN <<Addr(TEL_SCHEME, attrs.phone)>>
                ELSE IF isUpdate /\ keep THEN SetToSeq(d.contacts[contact0].urns)
                ELSE attrs.urns
    IN IF isUpdate
       THEN [db |-> Contact_update_urns(d, contact0, urns), id |-> contact0]
       ELSE Contact_get_or_create(d, org, urns)

Contact_restore_object_reset(d, org, attrs) ==
    IF org \in d.anon
    THEN [db |-> d, object |-> NoObject, crash |-> "ValidationError"]
    ELSE IF Truthy(attrs.uuid) /\ ContactByUuid(d, org, attrs.uuid) = {}
    THEN [db |-> d, object |-> NoObject, crash |-> "DoesNotExist"]
    ELSE IF ~Truthy(attrs.uuid) /\ ~attrs.hasUrns /\ ~attrs.hasPhone
    THEN [db |-> d, object |-> NoObject, crash |-> "UnboundLocalError"]
    ELSE IF Truthy(attrs.uuid) /\ ~attrs.hasUrns /\ attrs.hasPhone /\ ~Truthy(attrs.phone)
    THEN [db |-> d, object |-> NoObject, crash |-> "TypeError"]
    ELSE
    LET r1 == Contact_resolve(d, org, attrs)
        c == r1.id
        d2 == IF Truthy(attrs.name) THEN [r1.db EXCEPT !.contacts[c].name = attrs.name]
              ELSE r1.db
        d3 == [d2 EXCEPT !.contacts[c].language = attrs.language]
        d4 == IF attrs.hasFields THEN SetFields(d3, org, c, attrs.fields) ELSE d3
        gs == Groups_get_or_create(d4, org, attrs.groups)
        d5 == IF attrs.hasGroupUuids THEN Contact_update_groups(d4, c, attrs.group_uuids)
              ELSE IF attrs.hasGroups THEN Contact_update_groups(gs.db, c, gs.ids)
              ELSE d4
    IN [db |-> d5, object |-> c, crash |-> ""]

\* restore_object(attrs)
Contact_restore_object(d, org, attrs) ==
    IF org \in d.anon
    THEN [db |-> d, object |-> NoObject, crash |-> "ValidationError"]
    ELSE IF Truthy(attrs.uuid) /\ ContactByUuid(d, org, attrs.uuid) = {}
    THEN [db |-> d, object |-> NoObject, crash |-> "DoesNotExist"]
    ELSE IF ~Truthy(attrs.uuid) /\ ~attrs.hasUrns /\ ~attrs.hasPhone
    THEN [db |-> d, object |-> NoObject, crash |-> "UnboundLocalError"]
    ELSE IF Truthy(attrs.uuid) /\ ~attrs.hasUrns /\ attrs.hasPhone /\ ~Truthy(attrs.phone)
    THEN [db |-> d, object |-> NoObject, crash |-> "TypeError"]
    ELSE
    LET r1 == Contact_resolve(d, org, attrs)
        c == r1.id
        d2 == IF Truthy(attrs.name) THEN [r1.db EXCEPT !.contacts[c].name = attrs.name]
              ELSE r1.db
        d3 == IF attrs.hasLanguage THEN [d2 EXCEPT !.contacts[c].language = attrs.language]
              ELSE d2
        d4 == IF attrs.hasFields THEN SetFields(d3, org, c, attrs.fields) ELSE d3
        gs == Groups_get_or_create(d4, org, attrs.groups)
        d5 == IF attrs.hasGroupUuids THEN Contact_update_groups(d4, c, attrs.group_uuids)
              ELSE IF attrs.hasGroups THEN Contact_update_groups(gs.db, c, gs.ids)
              ELSE d4
    IN [db |-> d5, object |-> c, crash |-> ""]

Contact_from_native(d, org, userOrg, data) ==
    LET fs == Contact_fields(d, org, userOrg, data) IN
    from_native(d, StructuralErrors(data), fs,
                Contact_validate(fs.db, org, fs.attrs),
                Contact_restore_object(fs.db, org, fs.attrs))

(***************************************************************************)
(* CampaignWriteSerializer                                                 *)
(***************************************************************************)
CampaignIds(d) == 1..Len(d.campaigns)

\* Campaign.get_campaigns(org).filter(uuid=uuid)
CampaignByUuid(d, org, uuid) ==
    {c \in CampaignIds(d) : d.campaigns[c].org = org /\ d.campaigns[c].uuid = uuid
                            /\ d.campaigns[c].active}

\* Campaign.get_campaigns(org).filter(pk=campaign_id)
CampaignByPk(d, org, pk) ==
    {c \in CampaignIds(d) : d.campaigns[c].org = org /\ c = pk /\ d.campaigns[c].active}

\* restore_fields: name is required
Campaign_restore_fields(data) ==
    {Err(f, "required") : f \in {"name"} \ data.present}

\* validate_uuid
Campaign_validate_uuid(d, org, data) ==
    IF Has(data, "uuid") /\ Truthy(data.uuid) /\ CampaignByUuid(d, org, data.uuid) = {}
    THEN {Err("uuid", "not_found")} ELSE NoErrors

\* validate_group_uuid
Campaign_validate_group_uuid(d, org, data) ==
    IF Has(data, "group_uuid") /\ Truthy(data.group_uuid)
          /\ GroupByUuid(d, org, data.group_uuid) = {}
    THEN {Err("group_uuid", "not_found")} ELSE NoErrors

\* validate_campaign
Campaign_validate_campaign(d, org, data) ==
    IF Has(data, "campaign") /\ data.campaign # 0 /\ CampaignByPk(d, org, data.campaign) = {}
    THEN {Err("campaign", "not_found")} ELSE NoErrors

\* the working attribute set: campaign_obj is written by validate_uuid and then
\* by validate_campaign, group_obj by validate_group_uuid
Campaign_attrs(d, org, data) ==
    [uuid |-> IF Has(data, "uuid") THEN data.uuid ELSE <<>>,
     campaign |-> IF Has(data, "campaign") THEN data.campaign ELSE 0,
     name |-> data.name,
     group |-> IF Has(data, "group") THEN data.group ELSE <<>>,
     group_uuid |-> IF Has(data, "group_uuid") THEN data.group_uuid ELSE <<>>,
     campaign_obj |->
        IF Has(data, "campaign") /\ data.campaign # 0 /\ CampaignByPk(d, org, data.campaign) # {}
        THEN data.campaign
        ELSE IF Has(data, "uuid") /\ CampaignByUuid(d, org, data.uuid) # {}
        THEN Min(CampaignByUuid(d, org, data.uuid))
        ELSE NoObject,
     group_obj |->
        IF Has(data, "group_uuid") /\ GroupByUuid(d, org, data.group_uuid) # {}
        THEN Min(GroupByUuid(d, org, data.group_uuid))
        ELSE NoObject]

Campaign_fields(d, org, data) ==
    LET e0 == Campaign_restore_fields(data) IN
    [attrs |-> Campaign_attrs(d, org, data),
     errs |-> e0 \cup Campaign_validate_uuid(d, org, data)
                 \cup Campaign_validate_group_uuid(d, org, data)
                 \cup Campaign_validate_campaign(d, org, data),
     db |-> d, crash |-> ""]

\* validate(attrs)
Campaign_validate(attrs) ==
    IF ~Truthy(attrs.group) /\ ~Truthy(attrs.group_uuid)
    THEN {Err(NonField, "group")}
    ELSE IF attrs.campaign # 0 /\ Truthy(attrs.uuid)
    THEN {Err(NonField, "ambiguous")}
    ELSE NoErrors

\* restore_object(attrs)
Campaign_restore_object(d, org, attrs) ==
    LET g == IF attrs.group_obj # NoObject
             THEN [db |-> d, id |-> attrs.group_obj]
             ELSE Group_get_or_create(d, org, attrs.group)
        n == Len(d.campaigns) + 1
    IN IF attrs.campaign_obj # NoObject
       THEN [db |-> [g.db EXCEPT !.campaigns[attrs.campaign_obj].name = attrs.name,
                                 !.campaigns[attrs.campaign_obj].group = g.id],
             object |-> attrs.campaign_obj, crash |-> ""]
       ELSE [db |-> [g.db EXCEPT !.campaigns =
                        Append(@, [org |-> org, uuid |-> <<n>>, name |-> attrs.name,
                                   group |-> g.id, active |-> TRUE])],
             object |-> n, crash |-> ""]

Campaign_from_native(d, org, data) ==
    LET fs == Campaign_fields(d, org, data) IN
    from_native(d, StructuralErrors(data), fs,
                Campaign_validate(fs.attrs),
                Campaign_restore_object(fs.db, org, fs.attrs))

(***************************************************************************)
(* Flows and channels                                                      *)
(***************************************************************************)
FlowIds(d) == 1..Len(d.flows)

\* a Flow row; a hidden flow is the single-message flow of a campaign event
NewFlow(org, n, hidden, text) ==
    [org |-> org, uuid |-> <<n>>, active |-> TRUE, archived |-> FALSE,
     hidden |-> hidden, text |-> text, name |-> <<>>, flow_type |-> "F"]

MESSAGE_EVENT == "M"

FLOW_EVENT == "F"

EventIds(d) == 1..Len(d.events)

\* a CampaignEvent row, a flow event until its branch is set
NewEvent(org, n, campaign, relative_to, unit, hour) ==
    [org |-> org, uuid |-> <<n>>, campaign |-> campaign, etype |-> FLOW_EVENT,
     message |-> <<>>, flow |-> 0, relative_to |-> relative_to, unit |-> unit,
     delivery_hour |-> hour, active |-> TRUE]

ChannelIds(d) == DOMAIN d.channels

\* Flow.objects.filter(uuid=flow_uuid): no org, is_active or archived filter
FlowByUuid(d, uuid) == {f \in FlowIds(d) : d.flows[f].uuid = uuid}

\* FlowField: queryset Flow.objects.filter(is_active=True)
ActiveFlowPks(d) == {f \in FlowIds(d) : d.flows[f].active}

\* org.get_send_channel(TEL_SCHEME)
SendChannels(d, org) == {ch \in ChannelIds(d) : d.channels[ch].org = org /\ d.channels[ch].active}

RECURSIVE Contacts_get_or_create(_, _, _)
\* Contact.get_or_create(org, user, urns=[urn]) for each urn in turn: [db, ids]
Contacts_get_or_create(d, org, urns) ==
    IF urns = <<>> THEN [db |-> d, ids |-> {}]
    ELSE LET r == Contact_get_or_create(d, org, <<Head(urns)>>)
             rest == Contacts_get_or_create(r.db, org, Tail(urns))
         IN [db |-> rest.db, ids |-> {r.id} \cup rest.ids]

\* PhoneArrayField.from_native: each number tagged with the tel scheme
PhoneUrns(phones) == [i \in 1..Len(phones) |-> Addr(TEL_SCHEME, phones[i])]

ResolveContacts(d, org, uuids) ==
    {Min(ContactByUuid(d, org, uuids[i])) : i \in 1..Len(uuids)}

ContactsMissing(d, org, uuids) ==
    \E i \in 1..Len(uuids) : ContactByUuid(d, org, uuids[i]) = {}

ResolveGroups(d, org, uuids) ==
    {Min(GroupByUuid(d, org, uuids[i])) : i \in 1..Len(uuids)}

GroupsMissing(d, org, uuids) ==
    \E i \in 1..Len(uuids) : GroupByUuid(d, org, uuids[i]) = {}

(***************************************************************************)
(* FlowRunStartSerializer                                                  *)
(***************************************************************************)
\* restore_fields: the legacy flow pk must be the pk of an active flow
FlowStart_restore_fields(d, data) ==
    {Err(f, "type") : f \in data.badtype \cap data.present}
    \cup (IF Has(data, "flow") /\ data.flow # 0 /\ data.flow \notin ActiveFlowPks(d)
          THEN {Err("flow", "does_not_exist")} ELSE NoErrors)

UuidGiven(data) == Has(data, "flow_uuid") /\ Truthy(data.flow_uuid)

\* validate_flow_uuid: Flow.objects.get(uuid=flow_uuid) raises without a match
FlowStart_flow_uuid_crash(d, data) ==
    IF UuidGiven(data) /\ FlowByUuid(d, data.flow_uuid) = {} THEN "DoesNotExist" ELSE ""

FlowStart_validate_flow_uuid(d, org, data) ==
    IF UuidGiven(data) /\ FlowByUuid(d, data.flow_uuid) # {}
    THEN LET f == d.flows[Min(FlowByUuid(d, data.flow_uuid))] IN
         IF f.archived THEN {Err("flow_uuid", "archived")}
         ELSE IF org # f.org THEN {Err("flow_uuid", "not_found")}
         ELSE NoErrors
    ELSE NoErrors

\* attrs['flow'] after validate_flow_uuid
FlowStart_flow(d, org, data) ==
    IF UuidGiven(data) /\ FlowByUuid(d, data.flow_uuid) # {}
          /\ FlowStart_validate_flow_uuid(d, org, data) = NoErrors
    THEN Min(FlowByUuid(d, data.flow_uuid))
    ELSE IF Has(data, "flow") /\ data.flow \in ActiveFlowPks(d) THEN data.flow
    ELSE NoObject

\* validate_flow
FlowStart_validate_flow(d, org, data) ==
    LET f == FlowStart_flow(d, org, data) IN
    IF f = NoObject THEN NoErrors
    ELSE IF d.flows[f].archived THEN {Err("flow", "archived")}
    ELSE IF org # d.flows[f].org THEN {Err("flow", "not_found")}
    ELSE NoErrors

\* validate_groups
FlowStart_validate_groups(d, org, data) ==
    IF Has(data, "groups") /\ GroupsMissing(d, org, data.groups)
    THEN {Err("groups", "not_found")} ELSE NoErrors

\* validate_contacts
FlowStart_validate_contacts(d, org, data) ==
    IF Has(data, "contacts") /\ ContactsMissing(d, org, data.contacts)
    THEN {Err("contacts", "not_found")} ELSE NoErrors

\* validate_contact
FlowStart_validate_contact(d, org, data) ==
    IF Has(data, "contact") /\ ContactsMissing(d, org, data.contact)
    THEN {Err("contact", "not_found")} ELSE NoErrors

\* validate_phone
FlowStart_validate_phone(d, org, data) ==
    IF org \in d.anon THEN {Err("phone", "anon")}
    ELSE IF Has(data, "phone") /\ Truthy(data.phone)
    THEN IF SendChannels(d, org) = {} THEN {Err("phone", "no_channel")}
         ELSE IF \E i \in 1..Len(data.phone) : ~PhoneOk(data.phone[i], TRUE)
         THEN {Err("phone", "invalid")}
         ELSE NoErrors
    ELSE NoErrors

\* attrs['contacts']: validate_contact writes the key validate_contacts wrote
FlowStart_contacts(d, org, data) ==
    IF Has(data, "contact") /\ Truthy(data.contact)
    THEN ResolveContacts(d, org, data.contact)
    ELSE IF Has(data, "contacts") /\ Truthy(data.contacts)
    THEN ResolveContacts(d, org, data.contacts)
    ELSE {}

FlowStart_fields(d, org, data) ==
    LET e0 == FlowStart_restore_fields(d, data)
        skip == ErrFields(e0)
        crash == FlowStart_flow_uuid_crash(d, data)
        errs == e0
            \cup FlowStart_validate_flow_uuid(d, org, data)
            \cup FlowStart_validate_groups(d, org, data)
            \cup FlowStart_validate_contacts(d, org, data)
            \cup (IF "flow" \in skip THEN {} ELSE FlowStart_validate_flow(d, org, data))
            \cup FlowStart_validate_contact(d, org, data)
            \cup (IF "phone" \in skip THEN {} ELSE FlowStart_validate_phone(d, org, data))
        ok == errs = NoErrors /\ crash = ""
    IN [attrs |-> [flow |-> IF ok THEN FlowStart_flow(d, org, data) ELSE NoObject,
                   flow_uuid |-> IF Has(data, "flow_uuid") THEN data.flow_uuid ELSE <<>>,
                   groups |-> IF ok /\ Has(data, "groups")
                              THEN ResolveGroups(d, org, data.groups) ELSE {},
                   contacts |-> IF ok THEN FlowStart_contacts(d, org, data) ELSE {},
                   phone |-> IF ok /\ Has(data, "phone") THEN PhoneUrns(data.phone) ELSE <<>>],
        errs |-> IF crash # "" THEN e0 ELSE errs,
        db |-> d, crash |-> crash]

\* validate(attrs)
FlowStart_validate(attrs) ==
    IF ~(attrs.flow # NoObject \/ Truthy(attrs.flow_uuid))
    THEN {Err(NonField, "flow")} ELSE NoErrors

\* restore_object(attrs): flow.start(groups, contacts) unless both are empty
FlowStart_restore_object(d, org, attrs) ==
    LET made == Contacts_get_or_create(d, org, attrs.phone)
        contacts == attrs.contacts \cup made.ids
    IN IF contacts # {} \/ attrs.groups # {}
       THEN [db |-> [made.db EXCEPT !.starts =
                        @ \cup {[flow |-> attrs.flow, groups |-> attrs.groups,
                                 contacts |-> contacts]}],
             object |-> attrs.flow, crash |-> ""]
       ELSE [db |-> made.db, object |-> NoObject, crash |-> ""]

FlowStart_from_native(d, org, data) ==
    LET fs == FlowStart_fields(d, org, data) IN
    from_native(d, StructuralErrors(data), fs,
                FlowStart_validate(fs.attrs),
                FlowStart_restore_object(fs.db, org, fs.attrs))

(***************************************************************************)
(* MsgCreateSerializer                                                     *)
(***************************************************************************)
\* ChannelField: queryset Channel.objects.filter(is_active=True)
ActiveChannelPks(d) == {ch \in ChannelIds(d) : d.channels[ch].active}

\* restore_fields
Msg_restore_fields(d, data) ==
    {Err(f, "required") : f \in {"text"} \ data.present}
    \cup {Err(f, "type") : f \in data.badtype \cap data.present}
    \cup (IF Has(data, "channel") /\ data.channel # 0 /\ data.channel \notin ActiveChannelPks(d)
          THEN {Err("channel", "does_not_exist")} ELSE NoErrors)

\* attrs['channel'] after validate_channel: the given channel, else the org's
\* most recently seen active channel
Msg_channel(d, org, data) ==
    IF Has(data, "channel") /\ data.channel \in ActiveChannelPks(d) THEN data.channel
    ELSE IF (~Has(data, "channel") \/ data.channel = 0) /\ SendChannels(d, org) # {}
    THEN Min(SendChannels(d, org))
    ELSE NoObject

\* validate_channel
Msg_validate_channel(d, org, data) ==
    LET ch == Msg_channel(d, org, data) IN
    IF ch = NoObject THEN {Err("channel", "none")}
    ELSE IF org # d.channels[ch].org THEN {Err("channel", "not_found")}
    ELSE NoErrors

RECURSIVE MsgUrnError(_)
MsgUrnError(raws) ==
    IF raws = <<>> THEN NoErrors
    ELSE LET p == parse_urn(Head(raws))
             n == normalize_urn(p.scheme, p.path, TRUE)
         IN IF ~validate_urn(n.scheme, n.path) THEN {Err("urn", "invalid")}
            ELSE MsgUrnError(Tail(raws))

\* validate_urn: parse_urn's ValueError is not caught
Msg_urn_crash(d, org, data) ==
    IF /\ Has(data, "urn")
       /\ Msg_channel(d, org, data) # NoObject
       /\ \E i \in 1..Len(data.urn) :
             /\ ~CanParse(data.urn[i])
             /\ \A j \in 1..(i - 1) :
                   /\ CanParse(data.urn[j])
                   /\ MsgUrnError(<<data.urn[j]>>) = NoErrors
    THEN "ValueError" ELSE ""

Msg_validate_urn(d, org, data) ==
    IF Msg_channel(d, org, data) = NoObject THEN {Err("urn", "channel")}
    ELSE IF Has(data, "urn") THEN MsgUrnError(data.urn)
    ELSE NoErrors

\* validate_contact
Msg_validate_contact(d, org, data) ==
    IF Has(data, "contact") /\ ContactsMissing(d, org, data.contact)
    THEN {Err("contact", "not_found")} ELSE NoErrors

\* validate_phone
Msg_validate_phone(d, org, data) ==
    IF org \in d.anon THEN {Err("phone", "anon")}
    ELSE IF Msg_channel(d, org, data) = NoObject THEN {Err("phone", "channel")}
    ELSE IF Has(data, "phone") /\ \E i \in 1..Len(data.phone) : ~PhoneOk(data.phone[i], TRUE)
    THEN {Err("phone", "invalid")}
    ELSE NoErrors

Msg_fields(d, org, data) ==
    LET e0 == Msg_restore_fields(d, data)
        skip == ErrFields(e0)
        e1 == IF "channel" \in skip THEN {} ELSE Msg_validate_channel(d, org, data)
        crash == IF "urn" \in skip THEN "" ELSE Msg_urn_crash(d, org, data)
        errs == e0 \cup e1
            \cup (IF "urn" \in skip \/ crash # "" THEN {} ELSE Msg_validate_urn(d, org, data))
            \cup Msg_validate_contact(d, org, data)
            \cup (IF "phone" \in skip THEN {} ELSE Msg_validate_phone(d, org, data))
        ok == errs = NoErrors /\ crash = ""
    IN [attrs |-> [channel |-> IF ok THEN Msg_channel(d, org, data) ELSE NoObject,
                   urn |-> IF ok /\ Has(data, "urn")
                           THEN [i \in 1..Len(data.urn) |->
                                   LET p == parse_urn(data.urn[i])
                                   IN normalize_urn(p.scheme, p.path, TRUE)]
                           ELSE <<>>,
                   phone |-> IF ok /\ Has(data, "phone") THEN PhoneUrns(data.phone) ELSE <<>>,
                   contact |-> IF ok /\ Has(data, "contact")
                               THEN ResolveContacts(d, org, data.contact) ELSE {},
                   text |-> data.text],
        errs |-> IF crash # "" THEN e0 \cup e1 ELSE errs,
        db |-> d, crash |-> crash]

\* validate(attrs)
Msg_validate(attrs) ==
    IF \/ (~Truthy(attrs.urn) /\ ~Truthy(attrs.phone) /\ attrs.contact = {})
       \/ (Truthy(attrs.urn) /\ Truthy(attrs.phone))
    THEN {Err(NonField, "one_of")} ELSE NoErrors

\* Broadcast.create(org, user, text, recipients); `sends` counts its dispatches
Broadcast_create(d, org, recipients, sends) ==
    [d EXCEPT !.broadcasts = Append(@, [org |-> org, recipients |-> recipients,
                                        groups |-> {}, sends |-> sends])]

\* restore_object(attrs): one contact per urn, then the broadcast, then send()
Msg_restore_object(d, org, attrs) ==
    LET urns == IF Truthy(attrs.urn) THEN attrs.urn ELSE attrs.phone
        made == Contacts_get_or_create(d, d.channels[attrs.channel].org, urns)
    IN [db |-> Broadcast_create(made.db, org, made.ids \cup attrs.contact, 1),
        object |-> Len(d.broadcasts) + 1, crash |-> ""]

Msg_from_native(d, org, data) ==
    LET fs == Msg_fields(d, org, data) IN
    from_native(d, StructuralErrors(data), fs,
                Msg_validate(fs.attrs),
                Msg_restore_object(fs.db, org, fs.attrs))

(***************************************************************************)
(* BroadcastCreateSerializer                                               *)
(***************************************************************************)
RECURSIVE BcastUrnsError(_, _)
\* validate_urns: the first URN that does not parse or is not valid
BcastUrnsError(raws, country) ==
    IF raws = <<>> THEN NoErrors
    ELSE IF ~CanParse(Head(raws)) THEN {Err("urns", "parse")}
    ELSE LET p == parse_urn(Head(raws))
             n == normalize_urn(p.scheme, p.path, country)
         IN IF ~validate_urn(n.scheme, n.path) THEN {Err("urns", "invalid")}
            ELSE BcastUrnsError(Tail(raws), country)

\* restore_fields and the per-field validators, in the order urns, contacts,
\* groups, text, channel
Bcast_fields(d, org, data) ==
    LET country == SendChannels(d, org) # {}
        e0 == {Err(f, "required") : f \in {"text"} \ data.present}
              \cup {Err(f, "type") : f \in data.badtype \cap data.present}
              \cup (IF Has(data, "channel") /\ data.channel \notin ActiveChannelPks(d)
                    THEN {Err("channel", "does_not_exist")} ELSE NoErrors)
        skip == ErrFields(e0)
        errs == e0
            \cup (IF "urns" \notin skip /\ Has(data, "urns")
                  THEN BcastUrnsError(data.urns, country) ELSE NoErrors)
            \cup (IF "contacts" \notin skip /\ Has(data, "contacts")
                     /\ ContactsMissing(d, org, data.contacts)
                  THEN {Err("contacts", "not_found")} ELSE NoErrors)
            \cup (IF "groups" \notin skip /\ Has(data, "groups")
                     /\ GroupsMissing(d, org, data.groups)
                  THEN {Err("groups", "not_found")} ELSE NoErrors)
            \cup (IF "channel" \notin skip /\ Has(data, "channel")
                     /\ d.channels[data.channel].org # org
                  THEN {Err("channel", "not_found")} ELSE NoErrors)
        ok == errs = NoErrors
    IN [attrs |-> [urns |-> IF ok /\ Has(data, "urns")
                            THEN [i \in 1..Len(data.urns) |->
                                    LET p == parse_urn(data.urns[i])
                                    IN normalize_urn(p.scheme, p.path, country)]
                            ELSE <<>>,
                   contacts |-> IF ok /\ Has(data, "contacts")
                                THEN ResolveContacts(d, org, data.contacts) ELSE {},
                   groups |-> IF ok /\ Has(data, "groups")
                              THEN ResolveGroups(d, org, data.groups) ELSE {}],
        errs |-> errs, db |-> d, crash |-> ""]

\* validate(attrs)
Bcast_validate(attrs) ==
    IF ~(Truthy(attrs.urns) \/ attrs.contacts # {} \/ attrs.groups # {})
    THEN {Err(NonField, "one_of")} ELSE NoErrors

Bcast_restore_object_resend(d, org, attrs) ==
    LET made == Contacts_get_or_create(d, org, attrs.urns)
        n == Len(d.broadcasts) + 1
    IN [db |-> [Broadcast_create(made.db, org, attrs.contacts \cup made.ids, 2)
                   EXCEPT !.broadcasts[n].groups = attrs.groups],
        object |-> n, crash |-> ""]

\* restore_object(attrs): a contact per urn, the broadcast, then the send task
Bcast_restore_object(d, org, attrs) ==
    LET made == Contacts_get_or_create(d, org, attrs.urns)
        n == Len(d.broadcasts) + 1
    IN [db |-> [Broadcast_create(made.db, org, attrs.contacts \cup made.ids, 1)
                   EXCEPT !.broadcasts[n].groups = attrs.groups],
        object |-> n, crash |-> ""]

Bcast_from_native(d, org, data) ==
    LET fs == Bcast_fields(d, org, data) IN
    from_native(d, StructuralErrors(data), fs,
                Bcast_validate(fs.attrs),
                Bcast_restore_object(fs.db, org, fs.attrs))

(***************************************************************************)
(* CampaignEventWriteSerializer                                            *)
(***************************************************************************)
\* CampaignEvent.objects.filter(uuid=uuid, is_active=True, campaign__org=self.org)
EventByUuid(d, org, uuid) ==
    {e \in EventIds(d) : d.events[e].uuid = uuid /\ d.events[e].active
                         /\ d.events[e].org = org}

\* CampaignEvent.objects.filter(pk=event_id, is_active=True, campaign__org=self.org)
EventByPk(d, org, pk) ==
    {e \in EventIds(d) : e = pk /\ d.events[e].active /\ d.events[e].org = org}

\* Flow.objects.filter(uuid=flow_uuid, is_active=True, org=self.org)
OrgFlowByUuid(d, org, uuid) ==
    {f \in FlowIds(d) : d.flows[f].uuid = uuid /\ d.flows[f].active /\ d.flows[f].org = org}

\* Flow.objects.filter(pk=flow_id, is_active=True, org=self.org)
OrgFlowByPk(d, org, pk) ==
    {f \in FlowIds(d) : f = pk /\ d.flows[f].active /\ d.flows[f].org = org}

EventUnits == {"M", "H", "D", "W"}

MinHour == -1

MaxHour == 23

\* restore_fields: offset, unit, delivery_hour and relative_to are required
Event_restore_fields(data) ==
    {Err(f, "required") : f \in {"offset", "unit", "delivery_hour", "relative_to"} \ data.present}
    \cup {Err(f, "type") : f \in data.badtype \cap data.present}

\* validate_uuid
Event_validate_uuid(d, org, data) ==
    IF Has(data, "uuid") /\ Truthy(data.uuid) /\ EventByUuid(d, org, data.uuid) = {}
    THEN {Err("uuid", "not_found")} ELSE NoErrors

\* validate_campaign_uuid
Event_validate_campaign_uuid(d, org, data) ==
    IF Has(data, "campaign_uuid") /\ Truthy(data.campaign_uuid)
          /\ CampaignByUuid(d, org, data.campaign_uuid) = {}
    THEN {Err("campaign_uuid", "not_found")} ELSE NoErrors

\* validate_unit
Event_validate_unit(data) ==
    IF data.unit \notin EventUnits THEN {Err("unit", "invalid")} ELSE NoErrors

\* validate_delivery_hour
Event_validate_delivery_hour(data) ==
    IF data.delivery_hour < MinHour \/ data.delivery_hour > MaxHour
    THEN {Err("delivery_hour", "invalid")} ELSE NoErrors

\* validate_flow_uuid
Event_validate_flow_uuid(d, org, data) ==
    IF Has(data, "flow_uuid") /\ Truthy(data.flow_uuid)
          /\ OrgFlowByUuid(d, org, data.flow_uuid) = {}
    THEN {Err("flow_uuid", "not_found")} ELSE NoErrors

\* validate_event
Event_validate_event(d, org, data) ==
    IF Has(data, "event") /\ data.event # 0 /\ EventByPk(d, org, data.event) = {}
    THEN {Err("event", "not_found")} ELSE NoErrors

\* validate_campaign
Event_validate_campaign(d, org, data) ==
    IF Has(data, "campaign") /\ data.campaign # 0 /\ CampaignByPk(d, org, data.campaign) = {}
    THEN {Err("campaign", "not_found")} ELSE NoErrors

\* validate_flow
Event_validate_flow(d, org, data) ==
    IF Has(data, "flow") /\ data.flow # 0 /\ OrgFlowByPk(d, org, data.flow) = {}
    THEN {Err("flow", "not_found")} ELSE NoErrors

\* the working attribute set: event_obj, campaign_obj and flow_obj are written
\* by the validator of the uuid field and then, the legacy field coming later
\* in the field order, overwritten by the validator of the legacy field
Event_attrs(d, org, data) ==
    [event_obj |->
        IF Has(data, "event") /\ data.event # 0 /\ EventByPk(d, org, data.event) # {}
        THEN data.event
        ELSE IF Has(data, "uuid") /\ EventByUuid(d, org, data.uuid) # {}
        THEN Min(EventByUuid(d, org, data.uuid))
        ELSE NoObject,
     campaign_obj |->
        IF Has(data, "campaign") /\ data.campaign # 0 /\ CampaignByPk(d, org, data.campaign) # {}
        THEN data.campaign
        ELSE IF Has(data, "campaign_uuid") /\ CampaignByUuid(d, org, data.campaign_uuid) # {}
        THEN Min(CampaignByUuid(d, org, data.campaign_uuid))
        ELSE NoObject,
     flow_obj |->
        IF Has(data, "flow") /\ data.flow # 0 /\ OrgFlowByPk(d, org, data.flow) # {}
        THEN data.flow
        ELSE IF Has(data, "flow_uuid") /\ OrgFlowByUuid(d, org, data.flow_uuid) # {}
        THEN Min(OrgFlowByUuid(d, org, data.flow_uuid))
        ELSE NoObject,
     message |-> IF Has(data, "message") THEN data.message ELSE <<>>,
     unit |-> data.unit,
     delivery_hour |-> data.delivery_hour,
     relative_to |-> data.relative_to]

Event_fields(d, org, data) ==
    LET e0 == Event_restore_fields(data)
        skip == ErrFields(e0)
    IN [attrs |-> Event_attrs(d, org, data),
        errs |-> e0
            \cup Event_validate_uuid(d, org, data)
            \cup Event_validate_campaign_uuid(d, org, data)
            \cup (IF "unit" \in skip THEN {} ELSE Event_validate_unit(data))
            \cup (IF "delivery_hour" \in skip THEN {} ELSE Event_validate_delivery_hour(data))
            \cup Event_validate_flow_uuid(d, org, data)
            \cup Event_validate_event(d, org, data)
            \cup Event_validate_campaign(d, org, data)
            \cup Event_validate_flow(d, org, data),
        db |-> d, crash |-> ""]

\* validate(attrs)
Event_validate_nobranch(attrs) ==
    IF attrs.event_obj # NoObject /\ attrs.campaign_obj # NoObject
    THEN {Err(NonField, "campaign_on_update")}
    ELSE NoErrors

Event_validate(attrs) ==
    IF ~(Truthy(attrs.message) \/ attrs.flow_obj # NoObject)
    THEN {Err(NonField, "neither")}
    ELSE IF Truthy(attrs.message) /\ attrs.flow_obj # NoObject
    THEN {Err(NonField, "both")}
    ELSE IF attrs.event_obj # NoObject /\ attrs.campaign_obj # NoObject
    THEN {Err(NonField, "campaign_on_update")}
    ELSE NoErrors

\* ContactField.api_make_key(label)
api_make_key(label) == Lower(label)

\* ContactField.get_or_create(org, key, label): [db, id]
Field_get_or_create(d, org, key, label) ==
    LET have == {f \in FieldIds(d) : d.fields[f].org = org /\ d.fields[f].key = key} IN
    IF have # {}
    THEN [db |-> [d EXCEPT !.fields[Min(have)].label = label,
                           !.fields[Min(have)].active = TRUE],
          id |-> Min(have)]
    ELSE [db |-> [d EXCEPT !.fields = Append(@, [org |-> org, key |-> key, label |-> label,
                                                 active |-> TRUE, value_type |-> "T"])],
          id |-> Len(d.fields) + 1]

\* restore_object, lines 787-791: ensure the contact field exists. [db, id]
Event_relative_to(d, org, label) ==
    IF FieldByLabel(d, org, label) # {}
    THEN [db |-> d, id |-> Min(FieldByLabel(d, org, label))]
    ELSE Field_get_or_create(d, org, api_make_key(label), label)

\* Flow.create_single_message(org, user, message): [db, id]
Flow_create_single_message(d, org, message) ==
    [db |-> [d EXCEPT !.flows = Append(@, NewFlow(org, Len(d.flows) + 1, TRUE, message))],
     id |-> Len(d.flows) + 1]

\* Flow.update_single_message_flow(message)
Flow_update_single_message_flow(d, f, message) == [d EXCEPT !.flows[f].text = message]

\* CampaignEvent.create_flow_event(org, user, campaign, relative_to, ...): [db, id]
create_flow_event(d, org, campaign, rel, unit, flow, hour) ==
    LET n == Len(d.events) + 1 IN
    [db |-> [d EXCEPT !.events =
                Append(@, [NewEvent(org, n, campaign, rel, unit, hour) EXCEPT !.flow = flow])],
     id |-> n]

\* CampaignEvent.create_message_event(org, user, campaign, relative_to, ...):
\* the event and its hidden single-message flow. [db, id]
create_message_event(d, org, campaign, rel, unit, message, hour) ==
    LET n == Len(d.events) + 1
        fl == Flow_create_single_message(d, org, message)
    IN [db |-> [fl.db EXCEPT !.events =
                   Append(@, [NewEvent(org, n, campaign, rel, unit, hour) EXCEPT
                                 !.etype = MESSAGE_EVENT, !.message = message,
                                 !.flow = fl.id])],
        id |-> n]

\* restore_object, lines 793-819: update of an existing event
Event_update_recreate(d, org, e, attrs, rel) ==
    LET fl == Flow_create_single_message(d, org, attrs.message)
        d1 == IF attrs.flow_obj # NoObject
              THEN [d EXCEPT !.events[e].flow = attrs.flow_obj,
                             !.events[e].etype = FLOW_EVENT,
                             !.events[e].message = <<>>]
              ELSE [fl.db EXCEPT !.events[e].message = attrs.message,
                                 !.events[e].flow = fl.id,
                                 !.events[e].etype = MESSAGE_EVENT]
    IN [d1 EXCEPT !.events[e].unit = attrs.unit,
                  !.events[e].delivery_hour = attrs.delivery_hour,
                  !.events[e].relative_to = rel]

Event_update_keepmsg(d, org, e, attrs, rel) ==
    LET fl == Flow_create_single_message(d, org, attrs.message)
        d1 == IF attrs.flow_obj # NoObject
              THEN [d EXCEPT !.events[e].flow = attrs.flow_obj,
                             !.events[e].etype = FLOW_EVENT]
              ELSE IF d.events[e].etype # MESSAGE_EVENT
              THEN [fl.db EXCEPT !.events[e].message = attrs.message,
                                 !.events[e].flow = fl.id,
                                 !.events[e].etype = MESSAGE_EVENT]
              ELSE [Flow_update_single_message_flow(d, d.events[e].flow, attrs.message)
                       EXCEPT !.events[e].message = attrs.message]
    IN [d1 EXCEPT !.events[e].unit = attrs.unit,
                  !.events[e].delivery_hour = attrs.delivery_hour,
                  !.events[e].relative_to = rel]

Event_update(d, org, e, attrs, rel) ==
    LET fl == Flow_create_single_message(d, org, attrs.message)
        d1 == IF attrs.flow_obj # NoObject
              THEN [d EXCEPT !.events[e].flow = attrs.flow_obj,
                             !.events[e].etype = FLOW_EVENT,
                             !.events[e].message = <<>>]
              ELSE IF d.events[e].etype # MESSAGE_EVENT
              THEN [fl.db EXCEPT !.events[e].message = attrs.message,
                                 !.events[e].flow = fl.id,
                                 !.events[e].etype = MESSAGE_EVENT]
              ELSE [Flow_update_single_message_flow(d, d.events[e].flow, attrs.message)
                       EXCEPT !.events[e].message = attrs.message]
    IN [d1 EXCEPT !.events[e].unit = attrs.unit,
                  !.events[e].delivery_hour = attrs.delivery_hour,
                  !.events[e].relative_to = rel]

\* restore_object(attrs); a create with campaign None fails inside
\* CampaignEvent.create_*_event, after the contact field was ensured
Event_restore_object(d, org, attrs) ==
    LET rel == Event_relative_to(d, org, attrs.relative_to) IN
    IF attrs.event_obj # NoObject
    THEN [db |-> Event_update(rel.db, org, attrs.event_obj, attrs, rel.id),
          object |-> attrs.event_obj, crash |-> ""]
    ELSE IF attrs.campaign_obj = NoObject
    THEN [db |-> rel.db, object |-> NoObject, crash |-> "AttributeError"]
    ELSE LET made == IF attrs.flow_obj # NoObject
                     THEN create_flow_event(rel.db, org, attrs.campaign_obj, rel.id,
                                            attrs.unit, attrs.flow_obj, attrs.delivery_hour)
                     ELSE create_message_event(rel.db, org, attrs.campaign_obj, rel.id,
                                               attrs.unit, attrs.message, attrs.delivery_hour)
         IN [db |-> made.db, object |-> made.id, crash |-> ""]

Event_from_native(d, org, data) ==
    LET fs == Event_fields(d, org, data) IN
    from_native(d, StructuralErrors(data), fs,
                Event_validate(fs.attrs),
                Event_restore_object(fs.db, org, fs.attrs))

(***************************************************************************)
(* ContactFieldWriteSerializer and FlowWriteSerializer                     *)
(***************************************************************************)
\* the fields a serializer declares required=True and the input lacks
Required(data, names) == {Err(f, "required") : f \in names \ data.present}

\* VALUE_TYPE_CHOICES: text and number stand for the choices
ValueTypes == {"T", "N"}

\* validate_key: ContactField.objects.filter(org=self.org, key=key).exists()
Field_validate_key(d, org, data) ==
    IF Has(data, "key") /\ Truthy(data.key)
          /\ ~\E f \in FieldIds(d) : d.fields[f].org = org /\ d.fields[f].key = data.key
    THEN {Err("key", "not_found")} ELSE NoErrors

\* validate_value_type
Field_validate_value_type(data) ==
    IF Has(data, "value_type") /\ data.value_type \notin ValueTypes
    THEN {Err("value_type", "invalid")} ELSE NoErrors

\* validate and restore_object: the key defaults to the key made of the label
Field_from_native(d, org, data) ==
    LET key == IF Has(data, "key") /\ Truthy(data.key) THEN data.key
               ELSE api_make_key(data.label)
        made == Field_get_or_create(d, org, key, data.label)
    IN from_native(d, StructuralErrors(data),
                   [errs |-> Required(data, {"label", "value_type"})
                                \cup Field_validate_key(d, org, data)
                                \cup Field_validate_value_type(data),
                    db |-> d, crash |-> ""],
                   NoErrors,
                   [db |-> [made.db EXCEPT !.fields[made.id].value_type = data.value_type],
                    object |-> made.id, crash |-> ""])

\* Flow.FLOW_TYPES: flow and message stand for the choices
FlowTypes == {"F", "M"}

\* validate_uuid: Flow.objects.filter(org=self.org, uuid=uuid).exists()
Flow_validate_uuid(d, org, data) ==
    IF Has(data, "uuid") /\ Truthy(data.uuid)
          /\ ~\E f \in FlowIds(d) : d.flows[f].org = org /\ d.flows[f].uuid = data.uuid
    THEN {Err("uuid", "not_found")} ELSE NoErrors

\* validate_flow_type
Flow_validate_flow_type(data) ==
    IF Has(data, "flow_type") /\ data.flow_type \notin FlowTypes
    THEN {Err("flow_type", "invalid")} ELSE NoErrors

\* restore_object: Flow.objects.get(org=self.org, uuid=uuid) or Flow.create,
\* then flow.update(definition) when a definition is given
Flow_restore_object(d, org, data) ==
    LET isUpdate == Has(data, "uuid") /\ Truthy(data.uuid)
        f == IF isUpdate
             THEN Min({x \in FlowIds(d) : d.flows[x].org = org /\ d.flows[x].uuid = data.uuid})
             ELSE Len(d.flows) + 1
        d1 == IF isUpdate THEN d
              ELSE [d EXCEPT !.flows = Append(@, NewFlow(org, f, FALSE, <<>>))]
        d2 == [d1 EXCEPT !.flows[f].name = data.name, !.flows[f].flow_type = data.flow_type]
    IN [db |-> IF Has(data, "definition") /\ Truthy(data.definition)
               THEN [d2 EXCEPT !.flows[f].text = data.definition] ELSE d2,
        object |-> f, crash |-> ""]

Flow_from_native(d, org, data) ==
    LET errs == Required(data, {"name", "flow_type"})
                   \cup Flow_validate_uuid(d, org, data)
                   \cup Flow_validate_flow_type(data)
    IN from_native(d, StructuralErrors(data),
                   [errs |-> errs, db |-> d, crash |-> ""],
                   NoErrors,
                   IF errs = NoErrors THEN Flow_restore_object(d, org, data)
                   ELSE [db |-> d, object |-> NoObject, crash |-> ""])

(***************************************************************************)
(* The store before any request of the model: two orgs, each with a        *)
(* channel, a group, a campaign and flows; org A has a label, a contact    *)
(* field and messages.  Contact 1 of org B holds tel:+1 and contact 2 of   *)
(* org A holds twitter:b.  Org B may be anonymous.                         *)
(***************************************************************************)
TelOne == Addr(TEL_SCHEME, <<"+", "1">>)

TwitterB == Addr(<<"twitter">>, <<"b">>)

InitDb(anon) ==
    [anon |-> anon,
     labels |-> <<[org |-> "A", name |-> <<"S">>, uuid |-> <<1>>, count |-> 1]>>,
     msgs |-> <<[org |-> "A", direction |-> Incoming, visibility |-> Visible, labels |-> {1}],
                [org |-> "A", direction |-> Outgoing, visibility |-> Visible, labels |-> {}],
                [org |-> "B", direction |-> Incoming, visibility |-> Visible, labels |-> {}]>>,
     contacts |-> <<[NewContact("B", 1) EXCEPT !.urns = {TelOne}],
                    [NewContact("A", 2) EXCEPT !.urns = {TwitterB}]>>,
     groups |-> <<[org |-> "A", name |-> <<"G">>, uuid |-> <<1>>, active |-> TRUE],
                  [org |-> "B", name |-> <<"G">>, uuid |-> <<2>>, active |-> TRUE]>>,
     fields |-> <<[org |-> "A", key |-> <<"b">>, label |-> <<"B">>, active |-> TRUE, value_type |-> "T"],
                  [org |-> "B", key |-> <<"d">>, label |-> <<"D">>, active |-> TRUE, value_type |-> "T"]>>,
     campaigns |-> <<[org |-> "A", uuid |-> <<1>>, name |-> <<"c">>, group |-> 1,
                      active |-> TRUE],
                     [org |-> "B", uuid |-> <<2>>, name |-> <<"c">>, group |-> 2,
                      active |-> TRUE]>>,
     flows |-> <<NewFlow("A", 1, FALSE, <<>>),
                 [NewFlow("A", 2, FALSE, <<>>) EXCEPT !.archived = TRUE],
                 NewFlow("B", 3, FALSE, <<>>),
                 [NewFlow("B", 4, FALSE, <<>>) EXCEPT !.archived = TRUE],
                 NewFlow("A", 5, TRUE, <<"m">>)>>,
     events |-> <<[NewEvent("A", 1, 1, 1, "D", 0) EXCEPT
                      !.etype = MESSAGE_EVENT, !.message = <<"m">>, !.flow = 5],
                  [NewEvent("B", 2, 2, 2, "D", 0) EXCEPT !.flow = 3]>>,
     channels |-> <<[org |-> "A", active |-> TRUE], [org |-> "B", active |-> TRUE]>>,
     broadcasts |-> <<>>,
     starts |-> {}]

\* no serializer is in flight
Idle == [kind |-> "idle"]

Init ==
    /\ db = InitDb({})
    /\ cur = Idle

InitAnon ==
    /\ db \in {InitDb(anon) : anon \in {{}, {"B"}}}
    /\ cur = Idle

\* the tables stay within the bounds of the model
WithinBounds(d) ==
    /\ Len(d.labels) <= MaxLabels
    /\ Len(d.contacts) <= MaxContacts
    /\ Len(d.groups) <= MaxGroups
    /\ Len(d.campaigns) <= MaxCampaigns
    /\ Len(d.broadcasts) <= MaxBroadcasts
    /\ Cardinality(d.starts) <= MaxStarts
    /\ Len(d.flows) <= MaxFlows
    /\ Len(d.fields) <= MaxFields
    /\ Len(d.events) <= MaxEvents

\* the serializer after is_valid(): its input, its error map and its object
Served(kind, org, userOrg, data, o) ==
    [kind |-> kind, org |-> org, userOrg |-> userOrg, data |-> data,
     errors |-> o.errors, object |-> o.object, ran |-> o.ran, crash |-> o.crash,
     pre |-> db]

Serve(kind, org, userOrg, data, o) ==
    /\ cur = Idle
    /\ WithinBounds(o.db)
    /\ db' = o.db
    /\ cur' = Served(kind, org, userOrg, data, o)

\* the view returns the response and drops the serializer
Respond ==
    /\ cur # Idle
    /\ cur' = Idle
    /\ UNCHANGED db

\* an optional field: <<>> when absent, <<v>> when given
Opt(S) == {<<>>} \cup {<<v>> : v \in S}

Given(names, opts) == {names[i] : i \in {j \in 1..Len(names) : opts[j] # <<>>}}

Val(opt, default) == IF opt = <<>> THEN default ELSE opt[1]

(***************************************************************************)
(* Bulk actions                                                            *)
(***************************************************************************)
BulkData(shape, bad, messages, action, label, label_uuid) ==
    [shape |-> shape,
     present |-> Given(<<"messages", "action", "label", "label_uuid">>,
                       <<messages, action, label, label_uuid>>),
     badtype |-> bad,
     messages |-> Val(messages, {}),
     action |-> Val(action, ""),
     label |-> Val(label, <<>>),
     label_uuid |-> Val(label_uuid, <<>>)]

BulkLabelRefs ==
    {<<l, <<>>>> : l \in Opt({<<>>, <<"+", "S">>, <<"S">>, <<"N">>})}
    \cup {<<<<>>, u>> : u \in Opt({<<>>, <<1>>, <<9>>})}
    \cup {<<<<l>>, <<u>>>> : l \in {<<"N">>}, u \in {<<1>>, <<9>>}}

BulkRequests ==
    {BulkData("list", {}, <<>>, <<>>, <<>>, <<>>)}
    \cup {BulkData("dict", {}, m, a, r[1], r[2]) :
            m \in Opt({{1, 2, 3}, {2, 9}}),
            a \in Opt(BulkActions \cup {"bogus"}),
            r \in BulkLabelRefs}
    \cup {BulkData("dict", {"messages"}, <<{1}>>, <<a>>, <<>>, <<>>) :
            a \in {"archive", "bogus"}}

BulkAction(org, data) ==
    Serve("bulk", org, org, data, Bulk_from_native(db, org, data))

NextBulk ==
    \/ \E org \in Orgs : \E data \in BulkRequests : BulkAction(org, data)
    \/ Respond

SpecBulk == Init /\ [][NextBulk]_vars

\* org A has a second incoming message, archived and without a label
InitLabels ==
    /\ db = [InitDb({}) EXCEPT
                !.msgs = Append(@, [org |-> "A", direction |-> Incoming,
                                    visibility |-> Archived, labels |-> {}])]
    /\ cur = Idle

\* bulk actions of org A over its two incoming messages
LabelRequests ==
    {BulkData("dict", {}, <<m>>, <<a>>, r[1], r[2]) :
        m \in {{1, 4}, {4}, {1, 2, 3, 9}},
        a \in BulkActions,
        r \in {<<<<<<"S">>>>, <<>>>>, <<<<<<"N">>>>, <<>>>>, <<<<>>, <<<<1>>>>>>, <<<<>>, <<>>>>}}

NextLabels ==
    \/ \E data \in LabelRequests : BulkAction("A", data)
    \/ Respond

SpecLabels == InitLabels /\ [][NextLabels]_vars

(***************************************************************************)
(* Contact writes                                                          *)
(***************************************************************************)
ContactData(shape, bad, uuid, name, language, urns, group_uuids, fields, phone, groups) ==
    [shape |-> shape,
     present |-> Given(<<"uuid", "name", "language", "urns", "group_uuids", "fields",
                         "phone", "groups">>,
                       <<uuid, name, language, urns, group_uuids, fields, phone, groups>>),
     badtype |-> bad,
     uuid |-> Val(uuid, <<>>),
     name |-> Val(name, <<>>),
     language |-> Val(language, <<>>),
     urns |-> Val(urns, <<>>),
     group_uuids |-> Val(group_uuids, <<>>),
     fields |-> Val(fields, {}),
     phone |-> Val(phone, <<>>),
     groups |-> Val(groups, <<>>)]

RawTelOne == <<"tel", ":", "+", "1">>
RawTelOneSpaced == <<"tel", ":", "+", " ", "1">>
RawTwitter == <<"twitter", ":", "b">>
RawTwitterUpper == <<"twitter", ":", " ", "B">>
RawNoScheme == <<"b">>
RawTelLetters == <<"tel", ":", "b">>

\* requests that vary the identity of the contact: uuid, urns and phone
IdentityRequests ==
    {ContactData("list", {}, <<>>, <<>>, <<>>, <<>>, <<>>, <<>>, <<>>, <<>>)}
    \cup {ContactData("dict", {}, uuid, <<>>, <<>>, urns, <<>>, <<>>, phone, <<>>) :
            uuid \in Opt({<<1>>, <<2>>, <<3>>, <<9>>}),
            urns \in Opt({<<>>, <<RawTelOne>>, <<RawTelOneSpaced>>, <<RawTwitter>>,
                          <<RawTwitterUpper>>, <<RawNoScheme>>, <<RawTelLetters>>,
                          <<RawTwitter, RawTelOne>>}),
            phone \in Opt({<<>>, <<"+", "1">>, <<"+", "-", "2">>, <<"b">>})}
    \cup {ContactData("dict", {"urns"}, <<>>, <<>>, <<>>, <<<<>>>>, <<>>, <<>>, <<>>, <<>>)}

ContactWrite(org, userOrg, data) ==
    Serve("contact", org, userOrg, data, Contact_from_native(db, org, userOrg, data))

NextContact ==
    \/ \E org \in Orgs : \E data \in IdentityRequests : ContactWrite(org, org, data)
    \/ Respond

SpecContact == Init /\ [][NextContact]_vars

\* requests that vary the groups of a created or updated contact
GroupRequests ==
    {ContactData("dict", {}, id[1], <<>>, <<>>, <<>>, group_uuids, <<>>, id[2], groups) :
        id \in {<<<<>>, <<<<"+", "2">>>>>>, <<<<<<2>>>>, <<>>>>},
        group_uuids \in Opt({<<>>, <<<<1>>>>, <<<<2>>>>, <<<<1>>, <<3>>>>}),
        groups \in Opt({<<>>, <<<<"G">>>>, <<<<"H">>>>, <<<<"+">>>>})}

NextGroups ==
    \/ \E org \in Orgs : \E data \in GroupRequests : ContactWrite(org, org, data)
    \/ Respond

SpecGroups == InitAnon /\ [][NextGroups]_vars

\* requests that vary the language, made for an org by a user of any org
LanguageRequests ==
    {ContactData("dict", {}, id[1], name, language, <<>>, <<>>, <<>>, id[2], <<>>) :
        id \in {<<<<>>, <<<<"+", "2">>>>>>, <<<<<<2>>>>, <<>>>>},
        name \in Opt({<<"n">>}),
        language \in Opt({<<>>, <<"E">>, <<"e">>, <<"f">>})}

NextLanguage ==
    \/ \E org \in Orgs : \E userOrg \in Orgs : \E data \in LanguageRequests :
          ContactWrite(org, userOrg, data)
    \/ Respond

SpecLanguage == Init /\ [][NextLanguage]_vars

\* org A has relabelled two of its fields: the label of each is now the key of
\* the other in capitals; its contact 3 was released (is_active False)
InitProfile ==
    /\ db = [InitDb({}) EXCEPT
                !.fields = @ \o
                   <<[org |-> "A", key |-> <<"f">>, label |-> <<"E">>, active |-> TRUE, value_type |-> "T"],
                     [org |-> "A", key |-> <<"e">>, label |-> <<"F">>, active |-> TRUE, value_type |-> "T"]>>,
                !.contacts = Append(@, [NewContact("A", 3) EXCEPT !.active = FALSE])]
    /\ cur = Idle

FieldMaps ==
    {{}} \cup {{[key |-> k, value |-> <<"v">>]} : k \in {<<"b">>, <<"B">>, <<"E">>, <<"x">>}}

\* updates of contact 2 that vary what the write carries, and updates by the
\* uuid of another org's contact, of a released contact and of no contact
ProfileRequests ==
    {ContactData("dict", {}, <<<<2>>>>, name, language, <<>>, group_uuids, fields, <<>>, groups) :
        name \in Opt({<<"n">>}),
        language \in Opt({<<"e">>}),
        group_uuids \in Opt({<<<<1>>>>}),
        fields \in Opt(FieldMaps),
        groups \in Opt({<<<<"H">>>>})}
    \cup {ContactData("dict", {}, <<uuid>>, name, <<>>, <<>>, <<>>, <<>>, <<>>, <<>>) :
            uuid \in {<<1>>, <<3>>, <<9>>}, name \in Opt({<<"n">>})}

NextProfile ==
    \/ \E data \in ProfileRequests : ContactWrite("A", "A", data)
    \/ Respond

SpecProfile == InitProfile /\ [][NextProfile]_vars

(***************************************************************************)
(* Writes of flows and of contact fields                                   *)
(***************************************************************************)
\* org A has removed its flow 2 and a field with key "x" (is_active False)
InitRemoved ==
    /\ db = [InitDb({}) EXCEPT
                !.flows[2].active = FALSE,
                !.fields = Append(@, [org |-> "A", key |-> <<"x">>, label |-> <<"X">>,
                                      active |-> FALSE, value_type |-> "T"])]
    /\ cur = Idle

FlowData(shape, uuid, name, flow_type, definition) ==
    [shape |-> shape,
     present |-> Given(<<"uuid", "name", "flow_type", "definition">>,
                       <<uuid, name, flow_type, definition>>),
     uuid |-> Val(uuid, <<>>),
     name |-> Val(name, <<>>),
     flow_type |-> Val(flow_type, ""),
     definition |-> Val(definition, <<>>)]

FlowRequests ==
    {FlowData("list", <<>>, <<>>, <<>>, <<>>)}
    \cup {FlowData("dict", uuid, name, flow_type, definition) :
            uuid \in Opt({<<>>, <<2>>, <<3>>, <<9>>}),
            name \in Opt({<<"n">>}),
            flow_type \in Opt({"M", "X"}),
            definition \in Opt({<<"t">>})}

FieldData(shape, key, label, value_type) ==
    [shape |-> shape,
     present |-> Given(<<"key", "label", "value_type">>, <<key, label, value_type>>),
     key |-> Val(key, <<>>),
     label |-> Val(label, <<>>),
     value_type |-> Val(value_type, "")]

FieldRequests ==
    {FieldData("list", <<>>, <<>>, <<>>)}
    \cup {FieldData("dict", key, label, value_type) :
            key \in Opt({<<>>, <<"b">>, <<"x">>, <<"d">>}),
            label \in Opt({<<"N">>}),
            value_type \in Opt({"N", "X"})}

FlowWrite(org, data) == Serve("flow", org, org, data, Flow_from_native(db, org, data))

FieldWrite(org, data) == Serve("field", org, org, data, Field_from_native(db, org, data))

NextRemoved ==
    \/ \E data \in FlowRequests : FlowWrite("A", data)
    \/ \E data \in FieldRequests : FieldWrite("A", data)
    \/ Respond

SpecRemoved == InitRemoved /\ [][NextRemoved]_vars

(***************************************************************************)
(* Campaign writes                                                         *)
(***************************************************************************)
CampaignData(shape, uuid, name, group_uuid, campaign, group) ==
    [shape |-> shape,
     present |-> Given(<<"uuid", "name", "group_uuid", "campaign", "group">>,
                       <<uuid, name, group_uuid, campaign, group>>),
     badtype |-> {},
     uuid |-> Val(uuid, <<>>),
     name |-> Val(name, <<>>),
     group_uuid |-> Val(group_uuid, <<>>),
     campaign |-> Val(campaign, 0),
     group |-> Val(group, <<>>)]

CampaignRequests ==
    {CampaignData("list", <<>>, <<>>, <<>>, <<>>, <<>>)}
    \cup {CampaignData("dict", uuid, name, group_uuid, campaign, group) :
            uuid \in Opt({<<1>>, <<2>>, <<9>>}),
            name \in Opt({<<"n">>}),
            group_uuid \in Opt({<<>>, <<1>>, <<2>>, <<3>>}),
            campaign \in Opt({1, 9}),
            group \in Opt({<<>>, <<"G">>, <<"H">>})}

CampaignWrite(org, data) ==
    Serve("campaign", org, org, data, Campaign_from_native(db, org, data))

NextCampaign ==
    \/ \E org \in Orgs : \E data \in CampaignRequests : CampaignWrite(org, data)
    \/ Respond

SpecCampaign == Init /\ [][NextCampaign]_vars

(***************************************************************************)
(* Flow starts                                                             *)
(***************************************************************************)
FlowStartData(shape, bad, flow_uuid, groups, contacts, flow, contact, phone) ==
    [shape |-> shape,
     present |-> Given(<<"flow_uuid", "groups", "contacts", "flow", "contact", "phone">>,
                       <<flow_uuid, groups, contacts, flow, contact, phone>>),
     badtype |-> bad,
     flow_uuid |-> Val(flow_uuid, <<>>),
     groups |-> Val(groups, <<>>),
     contacts |-> Val(contacts, <<>>),
     flow |-> Val(flow, 0),
     contact |-> Val(contact, <<>>),
     phone |-> Val(phone, <<>>)]

FlowStartRequests ==
    {FlowStartData("list", {}, <<>>, <<>>, <<>>, <<>>, <<>>, <<>>)}
    \cup {FlowStartData("dict", {}, flow_uuid, groups, contacts, flow, contact, phone) :
            flow_uuid \in Opt({<<>>, <<1>>, <<2>>, <<3>>, <<4>>, <<9>>}),
            groups \in Opt({<<<<1>>>>}),
            contacts \in Opt({<<<<2>>>>}),
            flow \in Opt({1, 9}),
            contact \in Opt({<<<<3>>>>}),
            phone \in Opt({<<<<"1">>>>, <<<<"b">>>>})}
    \cup {FlowStartData("dict", {"phone"}, <<<<1>>>>, <<>>, <<>>, <<>>, <<>>, <<<<>>>>)}

\* a uuid that is the uuid of no row
UnknownUuid == <<9>>

\* the same request naming a flow uuid that matches nothing
Twin(data) == [data EXCEPT !.flow_uuid = UnknownUuid]

FlowStart(org, data) ==
    LET o == FlowStart_from_native(db, org, data)
        t == FlowStart_from_native(db, org, Twin(data))
    IN /\ cur = Idle
       /\ WithinBounds(o.db)
       /\ db' = o.db
       /\ cur' = [Served("flowstart", org, org, data, o) EXCEPT
                     !.object = [own |-> o.object,
                                 twin |-> [errors |-> t.errors, crash |-> t.crash,
                                           db |-> t.db]]]

NextFlowStart ==
    \/ \E org \in Orgs : \E data \in FlowStartRequests : FlowStart(org, data)
    \/ Respond

SpecFlowStart == InitAnon /\ [][NextFlowStart]_vars

\* org A has a second contact, which holds the phone number +1
InitRecipients ==
    /\ db = [InitDb({}) EXCEPT
                !.contacts = Append(@, [NewContact("A", 3) EXCEPT
                                          !.urns = {Addr(TEL_SCHEME, <<"+", "1">>)}])]
    /\ cur = Idle

\* flow starts that vary the four sources of recipients
RecipientRequests ==
    {FlowStartData("dict", {}, flow_uuid, groups, contacts, flow, contact, phone) :
        flow_uuid \in Opt({<<1>>, <<2>>}),
        groups \in Opt({<<<<1>>>>}),
        contacts \in Opt({<<>>, <<<<2>>>>, <<<<9>>>>}),
        flow \in Opt({1}),
        contact \in Opt({<<<<3>>>>}),
        phone \in Opt({<<>>, <<<<"1">>>>, <<<<"b">>>>})}

NextRecipients ==
    \/ \E data \in RecipientRequests : FlowStart("A", data)
    \/ Respond

SpecRecipients == InitRecipients /\ [][NextRecipients]_vars

(***************************************************************************)
(* Message creates, with contact creates by address                        *)
(***************************************************************************)
MsgData(shape, bad, channel, text, urn, contact, phone) ==
    [shape |-> shape,
     present |-> Given(<<"channel", "text", "urn", "contact", "phone">>,
                       <<channel, text, urn, contact, phone>>),
     badtype |-> bad,
     channel |-> Val(channel, 0),
     text |-> Val(text, <<>>),
     urn |-> Val(urn, <<>>),
     contact |-> Val(contact, <<>>),
     phone |-> Val(phone, <<>>)]

MsgRequests ==
    {MsgData("list", {}, <<>>, <<>>, <<>>, <<>>, <<>>)}
    \cup {MsgData("dict", {}, channel, <<<<"t">>>>, urn, contact, phone) :
            channel \in Opt({2, 9}),
            urn \in Opt({<<RawTelOne>>, <<RawTelOneSpaced>>, <<RawNoScheme>>}),
            contact \in Opt({<<<<3>>>>}),
            phone \in Opt({<<<<"1">>>>, <<<<"b">>>>})}
    \cup {MsgData("dict", {"phone"}, <<>>, <<>>, <<>>, <<>>, <<<<>>>>)}

CreateRequests ==
    {ContactData("dict", {}, <<>>, <<>>, <<>>, urns, <<>>, <<>>, phone, <<>>) :
        urns \in Opt({<<RawTelOne>>, <<RawTwitterUpper>>, <<RawTwitter, RawTelOneSpaced>>}),
        phone \in Opt({<<"+", "-", "1">>})}

MsgCreate(org, data) ==
    Serve("msg", org, org, data, Msg_from_native(db, org, data))

NextAddress ==
    \/ \E org \in Orgs : \E data \in MsgRequests : MsgCreate(org, data)
    \/ \E org \in Orgs : \E data \in CreateRequests : ContactWrite(org, org, data)
    \/ Respond

SpecAddress == InitAnon /\ [][NextAddress]_vars

(***************************************************************************)
(* Broadcast creates and message creates of an org that may be anonymous   *)
(***************************************************************************)
BcastData(shape, bad, urns, contacts, groups, text, channel) ==
    [shape |-> shape,
     present |-> Given(<<"urns", "contacts", "groups", "text", "channel">>,
                       <<urns, contacts, groups, text, channel>>),
     badtype |-> bad,
     urns |-> Val(urns, <<>>),
     contacts |-> Val(contacts, <<>>),
     groups |-> Val(groups, <<>>),
     text |-> Val(text, <<>>),
     channel |-> Val(channel, 0)]

BcastRequests ==
    {BcastData("list", {}, <<>>, <<>>, <<>>, <<>>, <<>>),
     BcastData("dict", {}, <<<<RawTelOne>>>>, <<>>, <<>>, <<>>, <<>>)}
    \cup {BcastData("dict", {}, urns, contacts, groups, <<<<"t">>>>, channel) :
            urns \in Opt({<<>>, <<RawTelOne>>, <<RawTelOneSpaced, RawTwitter>>, <<RawNoScheme>>,
                          <<RawTelLetters>>}),
            contacts \in Opt({<<<<1>>>>, <<<<9>>>>}),
            groups \in Opt({<<<<2>>>>}),
            channel \in Opt({1, 2, 9})}

MsgFewRequests ==
    {MsgData("dict", {}, <<>>, <<<<"t">>>>, urn, contact, phone) :
        urn \in Opt({<<RawTelOne>>}),
        contact \in Opt({<<<<1>>>>}),
        phone \in Opt({<<<<"1">>>>})}

BcastCreate(org, data) ==
    Serve("broadcast", org, org, data, Bcast_from_native(db, org, data))

NextBroadcast ==
    \/ \E data \in BcastRequests : BcastCreate("B", data)
    \/ \E data \in MsgFewRequests : MsgCreate("B", data)
    \/ Respond

SpecBroadcast == InitAnon /\ [][NextBroadcast]_vars

(***************************************************************************)
(* ChannelClaimSerializer                                                  *)
(***************************************************************************)
\* a Channel registration that no org has claimed yet
Pending == "-"

RECURSIVE lstrip(_)
lstrip(s) == IF s # <<>> /\ Head(s) = " " THEN lstrip(Tail(s)) ELSE s

RECURSIVE strip(_)
\* str.strip(): blanks are dropped at both ends
strip(s) ==
    LET t == lstrip(s) IN
    IF t # <<>> /\ t[Len(t)] = " " THEN strip(SubSeq(t, 1, Len(t) - 1)) ELSE t

ChannelByClaimCode_any(d, code) ==
    {ch \in ChannelIds(d) : d.channels[ch].issued = code /\ d.channels[ch].active}

\* Channel.objects.filter(claim_code=claim_code, is_active=True)
ChannelByClaimCode(d, code) ==
    {ch \in ChannelIds(d) : d.channels[ch].claim_code = code /\ d.channels[ch].active}

\* validate_claim_code: the stripped code must name an active Channel
Claim_validate_claim_code(d, data) ==
    IF strip(data.claim_code) = <<>> \/ ChannelByClaimCode(d, strip(data.claim_code)) = {}
    THEN {Err("claim_code", "invalid")} ELSE NoErrors

\* validate_phone: skipped without a channel; else parsed with its country
Claim_validate_phone(d, channel, data) ==
    IF channel # NoObject /\ ~PhoneOk(strip(data.phone), d.channels[channel].country)
    THEN {Err("phone", "invalid")} ELSE NoErrors

\* Channel.claim(org, phone, user): the Channel gets its owner and its
\* address, and its one-time code is used up
Channel_claim(d, ch, org, phone) ==
    [d EXCEPT !.channels[ch].org = org,
              !.channels[ch].address = phone,
              !.channels[ch].claim_code = <<>>]

\* restore_object: the name when one is given, then claim()
Claim_restore_object(d, org, channel, data) ==
    LET named == IF Has(data, "name") /\ Truthy(data.name)
                 THEN [d EXCEPT !.channels[channel].name = data.name] ELSE d
    IN [db |-> Channel_claim(named, channel, org,
                             E164(strip(data.phone), d.channels[channel].country)),
        object |-> channel, crash |-> ""]

\* claim_code and phone are required and may not be blank strings
Claim_from_native(d, org, data) ==
    LET e0 == {Err(f, "required") : f \in {g \in {"claim_code", "phone"} : ~Truthy(data[g])}}
        e1 == IF "claim_code" \in ErrFields(e0) THEN {} ELSE Claim_validate_claim_code(d, data)
        channel == IF e0 \cup e1 = NoErrors
                   THEN Min(ChannelByClaimCode(d, strip(data.claim_code))) ELSE NoObject
        e2 == IF "phone" \in ErrFields(e0) THEN {} ELSE Claim_validate_phone(d, channel, data)
    IN from_native(d, StructuralErrors(data),
                   [errs |-> e0 \cup e1 \cup e2, db |-> d, crash |-> ""],
                   NoErrors,
                   IF channel = NoObject THEN [db |-> d, object |-> NoObject, crash |-> ""]
                   ELSE Claim_restore_object(d, org, channel, data))

\* two claimed channels, two pending registrations (the second without a
\* country) and an inactive one; `issued` keeps the code of the registration
InitClaim ==
    /\ db = [InitDb({}) EXCEPT
               !.channels =
                 <<[org |-> "A", active |-> TRUE, claim_code |-> <<>>, issued |-> <<>>,
                    address |-> <<"+", "7">>, name |-> <<>>, country |-> TRUE],
                   [org |-> "B", active |-> TRUE, claim_code |-> <<>>, issued |-> <<>>,
                    address |-> <<"+", "8">>, name |-> <<>>, country |-> TRUE],
                   [org |-> Pending, active |-> TRUE, claim_code |-> <<"1">>, issued |-> <<"1">>,
                    address |-> <<>>, name |-> <<>>, country |-> TRUE],
                   [org |-> Pending, active |-> TRUE, claim_code |-> <<"2">>, issued |-> <<"2">>,
                    address |-> <<>>, name |-> <<>>, country |-> FALSE],
                   [org |-> Pending, active |-> FALSE, claim_code |-> <<"3">>, issued |-> <<"3">>,
                    address |-> <<>>, name |-> <<>>, country |-> TRUE]>>]
    /\ cur = Idle

ClaimData(shape, claim_code, phone, name) ==
    [shape |-> shape,
     present |-> Given(<<"claim_code", "phone", "name">>, <<claim_code, phone, name>>),
     claim_code |-> Val(claim_code, <<>>),
     phone |-> Val(phone, <<>>),
     name |-> Val(name, <<>>)]

ClaimRequests ==
    {ClaimData("dict", claim_code, phone, name) :
        claim_code \in Opt({<<"1">>, <<" ", "1">>, <<"2">>, <<"3">>, <<"9">>, <<" ">>}),
        phone \in Opt({<<"1">>, <<"+", "2">>, <<"b">>}),
        name \in Opt({<<"n">>})}
      \cup {ClaimData("list", <<>>, <<>>, <<>>)}

ChannelClaim(org, data) == Serve("claim", org, org, data, Claim_from_native(db, org, data))

NextClaim ==
    \/ \E org \in Orgs, data \in ClaimRequests : ChannelClaim(org, data)
    \/ Respond

SpecClaim == InitClaim /\ [][NextClaim]_vars

(***************************************************************************)
(* Two Contact writes of one org in flight at once.  Each request first    *)
(* runs its validation against the store as it is then, and later its      *)
(* restore_object against the store as it is then; the steps of the two    *)
(* requests interleave freely.  Contact.get_or_create and update_urns are  *)
(* single steps of the storage layer.                                      *)
(***************************************************************************)
\* org A has one contact, so that two more can be created
InitRace ==
    /\ db = [InitDb({}) EXCEPT
               !.contacts = <<[NewContact("A", 1) EXCEPT !.urns = {TwitterB}]>>]
    /\ cur = Idle

RaceRequests ==
    {ContactData("dict", {}, <<>>, <<>>, <<>>, urns, <<>>, <<>>, phone, <<>>) :
        urns \in Opt({<<<<"tel", ":", "+", "2">>>>, <<RawTelOne>>}),
        phone \in Opt({<<"+", "-", "2">>})}
    \cup {ContactData("dict", {}, <<uuid>>, <<>>, <<>>, <<<<<<"tel", ":", "+", "2">>>>>>,
                       <<>>, <<>>, <<>>, <<>>) :
            uuid \in {<<1>>, <<2>>}}

Waiting(data) ==
    [data |-> data, pc |-> "validate", attrs |-> <<>>, errors |-> NoErrors,
     object |-> NoObject, crash |-> ""]

\* two requests arrive together
RaceBegin(org, d1, d2) ==
    /\ cur = Idle
    /\ cur' = [kind |-> "race", org |-> org, pre |-> db,
               procs |-> <<Waiting(d1), Waiting(d2)>>, order |-> <<>>]
    /\ UNCHANGED db

\* is_valid() of request i up to validate(): per-field validators, then validate
RaceValidate(i) ==
    /\ cur.kind = "race"
    /\ cur.procs[i].pc = "validate"
    /\ LET fs == Contact_fields(db, cur.org, cur.org, cur.procs[i].data)
           errs == IF fs.errs # NoErrors THEN fs.errs
                   ELSE Contact_validate(db, cur.org, fs.attrs)
       IN cur' = [cur EXCEPT !.procs[i].attrs = fs.attrs,
                             !.procs[i].errors = errs,
                             !.procs[i].pc = IF errs = NoErrors THEN "mutate" ELSE "done",
                             !.order = Append(@, <<i, "validate">>)]
    /\ UNCHANGED db

\* request i takes the outcome r of its restore_object
RaceApply(i, r) ==
    /\ WithinBounds(r.db)
    /\ db' = r.db
    /\ cur' = [cur EXCEPT !.procs[i].object = r.object,
                          !.procs[i].crash = r.crash,
                          !.procs[i].pc = "done",
                          !.order = Append(@, <<i, "mutate">>)]

\* restore_object of request i, on the store as it is now
RaceMutate(i) ==
    /\ cur.kind = "race"
    /\ cur.procs[i].pc = "mutate"
    /\ RaceApply(i, Contact_restore_object(db, cur.org, cur.procs[i].attrs))

\* both responses are returned
RaceEnd ==
    /\ cur.kind = "race"
    /\ \A i \in {1, 2} : cur.procs[i].pc = "done"
    /\ cur' = Idle
    /\ UNCHANGED db

NextRace ==
    \/ \E d1 \in RaceRequests, d2 \in RaceRequests : RaceBegin("A", d1, d2)
    \/ \E i \in {1, 2} : RaceValidate(i)
    \/ \E i \in {1, 2} : RaceMutate(i)
    \/ RaceEnd

SpecRace == InitRace /\ [][NextRace]_vars

(***************************************************************************)
(* Campaign event writes                                                   *)
(***************************************************************************)
EventData(shape, bad, uuid, campaign_uuid, unit, hour, relative_to, message, flow_uuid,
          event, campaign, flow) ==
    [shape |-> shape,
     present |-> Given(<<"uuid", "campaign_uuid", "unit", "delivery_hour", "relative_to",
                         "message", "flow_uuid", "event", "campaign", "flow">>,
                       <<uuid, campaign_uuid, unit, hour, relative_to, message, flow_uuid,
                         event, campaign, flow>>)
                 \cup (IF shape = "dict" THEN {"offset"} ELSE {}),
     badtype |-> bad,
     uuid |-> Val(uuid, <<>>),
     campaign_uuid |-> Val(campaign_uuid, <<>>),
     unit |-> Val(unit, ""),
     delivery_hour |-> Val(hour, 0),
     relative_to |-> Val(relative_to, <<>>),
     message |-> Val(message, <<>>),
     flow_uuid |-> Val(flow_uuid, <<>>),
     event |-> Val(event, 0),
     campaign |-> Val(campaign, 0),
     flow |-> Val(flow, 0)]

EventRequests ==
    {EventData("list", {}, <<>>, <<>>, <<>>, <<>>, <<>>, <<>>, <<>>, <<>>, <<>>, <<>>)}
    \cup {EventData("dict", {}, uuid, campaign_uuid, <<"D">>, <<0>>, <<<<"B">>>>,
                    message, flow_uuid, event, campaign, flow) :
            uuid \in Opt({<<1>>}),
            campaign_uuid \in Opt({<<1>>}),
            message \in Opt({<<"t">>}),
            flow_uuid \in Opt({<<1>>}),
            event \in Opt({1}),
            campaign \in Opt({1}),
            flow \in Opt({1})}
    \cup {EventData("dict", {}, uuid, campaign, <<"D">>, <<0>>, <<<<"B">>>>, <<>>, <<>>,
                    <<>>, <<>>, <<5>>) :
            uuid \in Opt({<<1>>}), campaign \in Opt({<<1>>})}
    \cup {EventData("dict", {}, <<uuid>>, <<>>, <<"D">>, <<0>>, <<<<"B">>>>, message, flow_uuid,
                    <<>>, <<>>, <<>>) :
            uuid \in {<<1>>, <<2>>},
            message \in Opt({<<>>}),
            flow_uuid \in Opt({<<1>>, <<3>>})}
    \cup {EventData("dict", {}, <<<<1>>>>, <<>>, unit, hour, relative_to, <<<<"t">>>>, <<>>,
                    <<>>, <<>>, <<>>) :
            unit \in Opt({"X", "W"}), hour \in Opt({24, 23}),
            relative_to \in Opt({<<"N">>})}
    \cup {EventData("dict", {}, <<>>, <<>>, <<"D">>, <<0>>, <<<<"N">>>>, <<<<"t">>>>, <<>>,
                    <<>>, <<>>, <<>>)}

\* the requests made for the second org
EventRequestsOther ==
    {EventData("dict", {}, uuid, <<>>, <<"D">>, <<0>>, <<<<"D">>>>, message, flow_uuid,
               <<>>, <<>>, <<>>) :
        uuid \in {<<<<1>>>>, <<<<2>>>>},
        message \in Opt({<<"t">>}),
        flow_uuid \in Opt({<<3>>})}

EventWrite(org, data) ==
    Serve("event", org, org, data, Event_from_native(db, org, data))

NextEvent ==
    \/ \E data \in EventRequests : EventWrite("A", data)
    \/ \E data \in EventRequestsOther : EventWrite("B", data)
    \/ Respond

SpecEvent == Init /\ [][NextEvent]_vars

(***************************************************************************)
(* All write resources together, each with dict and non-dict bodies        *)
(***************************************************************************)
\* bodies that are valid JSON but not a JSON object
NonDictShapes == {"list", "string"}

BulkSample ==
    {BulkData(sh, {}, <<>>, <<>>, <<>>, <<>>) : sh \in NonDictShapes}
    \cup {BulkData("dict", {}, <<{1}>>, <<"label">>, <<<<"N">>>>, <<>>)}

ContactSample ==
    {ContactData(sh, {}, <<>>, <<>>, <<>>, <<>>, <<>>, <<>>, <<>>, <<>>) :
        sh \in NonDictShapes}
    \cup {ContactData("dict", {}, <<>>, <<>>, <<>>, <<>>, <<>>, <<>>, <<<<"+", "2">>>>, <<>>),
          ContactData("dict", {}, <<<<2>>>>, <<<<"n">>>>, <<>>, <<>>, <<>>, <<>>, <<>>,
                      <<<<<<"H">>>>>>)}

CampaignSample ==
    {CampaignData(sh, <<>>, <<>>, <<>>, <<>>, <<>>) : sh \in NonDictShapes}
    \cup {CampaignData("dict", <<>>, <<<<"n">>>>, <<>>, <<>>, <<<<"H">>>>)}

FlowStartSample ==
    {FlowStartData(sh, {}, <<>>, <<>>, <<>>, <<>>, <<>>, <<>>) : sh \in NonDictShapes}
    \cup {FlowStartData("dict", {}, <<<<1>>>>, <<>>, <<<<<<2>>>>>>, <<>>, <<>>, <<>>)}

MsgSample ==
    {MsgData(sh, {}, <<>>, <<>>, <<>>, <<>>, <<>>) : sh \in NonDictShapes}
    \cup {MsgData("dict", {}, <<>>, <<<<"t">>>>, <<>>, <<>>, <<<<<<"1">>>>>>)}

Next ==
    \/ \E org \in Orgs : \E data \in BulkSample : BulkAction(org, data)
    \/ \E org \in Orgs : \E data \in ContactSample : ContactWrite(org, org, data)
    \/ \E org \in Orgs : \E data \in CampaignSample : CampaignWrite(org, data)
    \/ \E org \in Orgs : \E data \in FlowStartSample : FlowStart(org, data)
    \/ \E org \in Orgs : \E data \in MsgSample : MsgCreate(org, data)
    \/ Respond

Spec == InitAnon /\ [][Next]_vars

(***************************************************************************)
(* Properties                                                              *)
(***************************************************************************)
\* a serializer has run and is_valid() is false
Rejected == cur.kind # "idle" /\ cur.errors # NoErrors

\* a serializer has run to the end: no error and no exception
Accepted == cur.kind # "idle" /\ cur.errors = NoErrors /\ cur.crash = ""

\* C1: a request that ends with a non-empty error map leaves the store as it
\* was before the request, whatever stage reported the error.
C1_RejectedLeavesStoreUnchanged ==
    Rejected => db = cur.pre

\* C2: a body that is valid JSON but not a JSON object yields exactly one
\* structural error under the non-field key; no per-field validator, no
\* cross-field validator and no restore_object runs, and the store is unchanged.
C2_NonDictBodyStructuralError ==
    (cur.kind # "idle" /\ ~IsDict(cur.data)) =>
        /\ cur.errors = {Err(NonField, "structural")}
        /\ cur.ran = {}
        /\ cur.crash = ""
        /\ db = cur.pre

\* a non-dict body was rejected after earlier writes had changed the store
C2_Witness ==
    /\ cur.kind = "contact"
    /\ cur.data.shape = "list"
    /\ cur.errors = {Err(NonField, "structural")}
    /\ db = cur.pre
    /\ Len(db.contacts) > 2
    /\ Len(db.broadcasts) > 0

\* the normalized addresses a contact write names, once each passes its
\* per-field validator
ReqAddrs(data) ==
    IF Has(data, "phone") /\ Truthy(data.phone) /\ PhoneOk(data.phone, FALSE)
    THEN {Addr(TEL_SCHEME, E164(data.phone, FALSE))}
    ELSE IF Has(data, "urns") /\ UrnsError(data.urns) = NoErrors
    THEN SeqToSet(NormUrns(data.urns))
    ELSE {}

\* every active address of an org is held by at most one active contact
AddressesUnique(d) ==
    \A c1 \in ContactIds(d) : \A c2 \in ContactIds(d) :
        (c1 # c2 /\ d.contacts[c1].org = d.contacts[c2].org
            /\ d.contacts[c1].active /\ d.contacts[c2].active)
        => d.contacts[c1].urns \cap d.contacts[c2].urns = {}

\* the write is an update by uuid that names an address which another
\* contact of the org held before the request
UpdateTakesHeldAddress ==
    /\ cur.kind = "contact"
    /\ IsDict(cur.data)
    /\ Has(cur.data, "uuid") /\ Truthy(cur.data.uuid)
    /\ \E a \in ReqAddrs(cur.data) : \E y \in Holders(cur.pre, cur.org, a) :
          cur.pre.contacts[y].uuid # cur.data.uuid

\* C3: after any sequence of contact writes each active address of an org is
\* attached to at most one active contact, and an update that would attach to
\* a contact an address held by a different contact is rejected and changes
\* nothing.
C3_AddressHeldByOneContact ==
    /\ AddressesUnique(db)
    /\ UpdateTakesHeldAddress => (Rejected /\ db = cur.pre)

\* an update was refused because another contact, created by an earlier
\* write, holds the address
C3_Witness ==
    /\ UpdateTakesHeldAddress
    /\ cur.errors = {Err(NonField, "used")}
    /\ Len(cur.pre.contacts) > 2
    /\ db = cur.pre

\* the normalized addresses a message create names
MsgAddrs(data) ==
    IF Has(data, "urn") /\ Truthy(data.urn)
    THEN {LET p == parse_urn(data.urn[i]) IN normalize_urn(p.scheme, p.path, TRUE) :
             i \in 1..Len(data.urn)}
    ELSE IF Has(data, "phone")
    THEN {normalize_urn(TEL_SCHEME, data.phone[i], TRUE) : i \in 1..Len(data.phone)}
    ELSE {}

\* an accepted create by address: a contact write without uuid, or a message
CreateByAddress ==
    /\ Accepted
    /\ \/ cur.kind = "contact" /\ ~Truthy(cur.data.uuid)
       \/ cur.kind = "msg"

CreateAddrs == IF cur.kind = "msg" THEN MsgAddrs(cur.data) ELSE ReqAddrs(cur.data)

\* C4: a create by address resolves an address that a contact of the org
\* already holds to that contact and creates a contact only for addresses
\* nobody holds, so a second create with the same normalized address adds no
\* contact; a message create adds one broadcast addressed to the holders.
C4_CreateResolvesToHolder ==
    CreateByAddress =>
        LET addrs == CreateAddrs
            free == {a \in addrs : Holders(cur.pre, cur.org, a) = {}}
            grown == Len(db.contacts) - Len(cur.pre.contacts)
        IN /\ \A a \in addrs : Cardinality(Holders(db, cur.org, a)) = 1
           /\ \A a \in addrs \ free : Holders(db, cur.org, a) = Holders(cur.pre, cur.org, a)
           /\ cur.kind = "contact" =>
                 /\ grown = (IF free = addrs THEN 1 ELSE 0)
                 /\ \E a \in addrs : cur.object \in Holders(db, cur.org, a)
                 /\ \A a \in free : Holders(db, cur.org, a) = {cur.object}
           /\ cur.kind = "msg" =>
                 /\ grown = Cardinality(free)
                 /\ Len(db.broadcasts) = Len(cur.pre.broadcasts) + 1
                 /\ cur.object = Len(db.broadcasts)
                 /\ \A a \in addrs :
                       Holders(db, cur.org, a) \subseteq db.broadcasts[cur.object].recipients

\* the second of two message creates with the same address: both broadcasts
\* go to the contact the first one created, and no contact was added
C4_Witness ==
    /\ CreateByAddress
    /\ cur.kind = "msg"
    /\ CreateAddrs # {}
    /\ Len(db.broadcasts) = 2
    /\ db.broadcasts[1].recipients = db.broadcasts[2].recipients
    /\ \A c \in db.broadcasts[2].recipients : c > 2
    /\ Len(db.contacts) = Len(cur.pre.contacts)

\* the flow start names by uuid a flow that belongs to another org
NamesForeignFlow ==
    /\ cur.kind = "flowstart"
    /\ IsDict(cur.data)
    /\ Has(cur.data, "flow_uuid")
    /\ \E f \in FlowIds(cur.pre) :
          /\ cur.pre.flows[f].uuid = cur.data.flow_uuid
          /\ cur.pre.flows[f].org # cur.org

\* C5: a request that names an entity of another org by uuid has exactly the
\* outcome of the same request naming a uuid that matches nothing, whatever
\* the state of the other org's entity: same error map, same exception, same
\* store.
C5_ForeignSameAsUnknown ==
    NamesForeignFlow =>
        /\ cur.errors = cur.object.twin.errors
        /\ cur.crash = cur.object.twin.crash
        /\ db = cur.object.twin.db

\* rows of other orgs are as before and every new row belongs to org
ForeignRowsKept(before, after, org) ==
    /\ Len(after) >= Len(before)
    /\ \A i \in 1..Len(after) :
          /\ (i <= Len(before) /\ before[i].org # org) => after[i] = before[i]
          /\ i > Len(before) => after[i].org = org

\* the write touched rows of its own org only
OwnRowsOnly ==
    cur.kind # "idle" =>
        /\ ForeignRowsKept(cur.pre.labels, db.labels, cur.org)
        /\ ForeignRowsKept(cur.pre.msgs, db.msgs, cur.org)
        /\ ForeignRowsKept(cur.pre.contacts, db.contacts, cur.org)
        /\ ForeignRowsKept(cur.pre.groups, db.groups, cur.org)
        /\ ForeignRowsKept(cur.pre.fields, db.fields, cur.org)
        /\ ForeignRowsKept(cur.pre.campaigns, db.campaigns, cur.org)
        /\ ForeignRowsKept(cur.pre.broadcasts, db.broadcasts, cur.org)

\* a language the write stored is one of the languages of the write's org
OwnLanguageList ==
    (cur.kind = "contact" /\ Accepted /\ Has(cur.data, "language")
        /\ Truthy(cur.data.language))
    => Lower(cur.data.language) \in OrgLanguages[cur.org]

\* C6: a write processed for one org creates or modifies no row of another
\* org, and everything it consults, the language list included, belongs to
\* the org of the request.
C6_OwnTenantOnly ==
    OwnRowsOnly /\ OwnLanguageList

\* a contact write that gives a phone and a non-empty list of urns
PhoneAndUrns ==
    /\ cur.kind = "contact"
    /\ IsDict(cur.data)
    /\ Has(cur.data, "phone") /\ Truthy(cur.data.phone)
    /\ Has(cur.data, "urns") /\ Truthy(cur.data.urns)

\* C7: a contact write with both the legacy phone and a non-empty urns list
\* is always rejected and the store is unchanged; when the fields pass their
\* own validators the error is the cross-field one.
C7_PhoneAndUrnsRejected ==
    PhoneAndUrns =>
        /\ Rejected
        /\ db = cur.pre
        /\ "restore_object" \notin cur.ran
        /\ "validate" \in cur.ran => cur.errors = {Err(NonField, "one_of")}

\* phone and urns, each valid, were refused by the cross-field validator
C7_Witness ==
    /\ PhoneAndUrns
    /\ cur.ran = {"fields", "validate"}
    /\ cur.errors = {Err(NonField, "one_of")}
    /\ Len(db.contacts) > 2

\* the group references a campaign write supplies with a non-empty value
GroupRefs(data) ==
    {f \in {"group", "group_uuid"} : Has(data, f) /\ Truthy(data[f])}

\* C8: a campaign write that supplies both the legacy group name and
\* group_uuid is always rejected and changes nothing; a campaign write is
\* accepted only when exactly one of the two is supplied.
C8_GroupAndGroupUuidExclusive ==
    (cur.kind = "campaign" /\ IsDict(cur.data)) =>
        /\ Cardinality(GroupRefs(cur.data)) = 2 => (Rejected /\ db = cur.pre)
        /\ "restore_object" \in cur.ran => Cardinality(GroupRefs(cur.data)) = 1

\* the identity fields a contact write supplies with a non-empty value
IdentityRefs(data) ==
    {f \in {"urns", "phone", "uuid"} : Has(data, f) /\ Truthy(data[f])}

\* a contact write whose fields passed their own validators
ContactCrossChecked ==
    cur.kind = "contact" /\ IsDict(cur.data) /\ "validate" \in cur.ran

\* C9 as stated: a contact write passes cross-field validation only if
\* exactly one of urns, phone and uuid is supplied.
C9_ExactlyOneIdentity ==
    (ContactCrossChecked /\ "restore_object" \in cur.ran)
    => Cardinality(IdentityRefs(cur.data)) = 1

\* C9: a contact write passes cross-field validation only if at least one of
\* urns, phone and uuid is supplied and urns and phone are not both supplied;
\* none of the three is rejected, urns with phone is rejected, and uuid with
\* urns or with phone is an update that is refused only when another contact
\* of the org holds one of the addresses.
C9_IdentityRule ==
    ContactCrossChecked =>
        LET refs == IdentityRefs(cur.data) IN
        /\ refs = {} => cur.errors = {Err(NonField, "one_of")}
        /\ {"urns", "phone"} \subseteq refs => cur.errors = {Err(NonField, "one_of")}
        /\ "restore_object" \in cur.ran =>
              /\ refs # {}
              /\ ~({"urns", "phone"} \subseteq refs)
              /\ ~UpdateTakesHeldAddress
        /\ (Cardinality(refs) = 2 /\ "uuid" \in refs) =>
              /\ Err(NonField, "one_of") \notin cur.errors
              /\ ~UpdateTakesHeldAddress => "restore_object" \in cur.ran

\* an update by uuid that also gives urns was accepted and replaced the
\* addresses of the contact
C9_Witness ==
    /\ ContactCrossChecked
    /\ IdentityRefs(cur.data) = {"uuid", "urns"}
    /\ Accepted
    /\ db.contacts[cur.object].urns # cur.pre.contacts[cur.object].urns
    /\ db.contacts[cur.object].urns = ReqAddrs(cur.data)

\* C10: a contact write in which both groups and group_uuids are present,
\* empty lists included, is rejected by the cross-field validator; no group
\* is created and no membership changes.
C10_GroupsAndGroupUuidsExclusive ==
    (cur.kind = "contact" /\ IsDict(cur.data)
        /\ Has(cur.data, "groups") /\ Has(cur.data, "group_uuids"))
    => /\ Rejected
       /\ "validate" \in cur.ran => Err(NonField, "groups") \in cur.errors
       /\ db.groups = cur.pre.groups
       /\ \A c \in ContactIds(cur.pre) : db.contacts[c].groups = cur.pre.contacts[c].groups

\* the (uuid field, legacy numeric-id field) pairs of each write resource
IdPairs(kind) ==
    IF kind = "campaign" THEN {<<"uuid", "campaign">>}
    ELSE IF kind = "event"
    THEN {<<"uuid", "event">>, <<"campaign_uuid", "campaign">>, <<"flow_uuid", "flow">>}
    ELSE IF kind = "flowstart" THEN {<<"flow_uuid", "flow">>}
    ELSE {}

\* the request supplies both members of a pair, each with a non-empty value
SuppliesBothIds ==
    /\ cur.kind # "idle"
    /\ IsDict(cur.data)
    /\ \E p \in IdPairs(cur.kind) :
          /\ Has(cur.data, p[1]) /\ Truthy(cur.data[p[1]])
          /\ Has(cur.data, p[2]) /\ cur.data[p[2]] # 0

\* C11: a request that supplies both the uuid field and the legacy numeric-id
\* field of the same entity is rejected as ambiguous and changes nothing; it
\* is never resolved from one of the two while the other is ignored.
C11_BothIdentifiersRejected ==
    SuppliesBothIds => (Rejected /\ db = cur.pre)

\* the event write carries a non-empty inline message
EventHasMessage == Has(cur.data, "message") /\ Truthy(cur.data.message)

\* the event write carries a flow reference that resolves in its org
EventHasFlow ==
    \/ Has(cur.data, "flow_uuid") /\ OrgFlowByUuid(cur.pre, cur.org, cur.data.flow_uuid) # {}
    \/ Has(cur.data, "flow") /\ OrgFlowByPk(cur.pre, cur.org, cur.data.flow) # {}

EventWriteSeen == cur.kind = "event" /\ IsDict(cur.data)

\* C12: a campaign event write is accepted only with exactly one of a
\* non-empty message and a resolved flow reference; with both or with neither
\* it is rejected, by the cross-field validator when the fields pass their
\* own validators, and no event, flow or contact field is created or changed.
C12_MessageXorFlow ==
    EventWriteSeen =>
        /\ (EventHasMessage <=> EventHasFlow) =>
              /\ Rejected
              /\ db = cur.pre
              /\ "validate" \in cur.ran =>
                    cur.errors = {Err(NonField, IF EventHasMessage THEN "both" ELSE "neither")}
        /\ "restore_object" \in cur.ran => (EventHasMessage <=> ~EventHasFlow)

\* message and flow reference, each valid, were refused together after an
\* earlier write had created an event
C12_Witness ==
    /\ EventWriteSeen
    /\ EventHasMessage /\ EventHasFlow
    /\ cur.errors = {Err(NonField, "both")}
    /\ Len(db.events) > 2
    /\ db = cur.pre

\* an accepted update of an event that existed before the request
EventUpdated ==
    /\ EventWriteSeen
    /\ Accepted
    /\ cur.object \in EventIds(cur.pre)

\* the flows the event write refers to, by uuid or by legacy id
EventFlowRefs ==
    (IF Has(cur.data, "flow_uuid")
     THEN OrgFlowByUuid(cur.pre, cur.org, cur.data.flow_uuid) ELSE {})
    \cup (IF Has(cur.data, "flow") THEN OrgFlowByPk(cur.pre, cur.org, cur.data.flow) ELSE {})

\* C13: updating a message event with a flow reference keeps the uuid of the
\* event, makes it a flow event without inline message and backs it by the
\* referenced flow in place of the hidden flow; an update back to a message
\* keeps the uuid too and makes it a message event again.
C13_BranchSwitchKeepsIdentity ==
    EventUpdated =>
        LET e == cur.object
            before == cur.pre.events[e]
            after == db.events[e]
        IN /\ after.uuid = before.uuid
           /\ Len(db.events) = Len(cur.pre.events)
           /\ (before.etype = MESSAGE_EVENT /\ EventHasFlow) =>
                 /\ after.etype = FLOW_EVENT
                 /\ after.message = <<>>
                 /\ after.flow \in EventFlowRefs
           /\ (before.etype = FLOW_EVENT /\ EventHasMessage) =>
                 /\ after.etype = MESSAGE_EVENT
                 /\ after.message = cur.data.message

\* event 1, a message event at first, was switched to a flow and is now
\* switched back to a message: same uuid, a new hidden flow
C13_Witness ==
    /\ EventUpdated
    /\ cur.object = 1
    /\ cur.pre.events[1].etype = FLOW_EVENT
    /\ ~cur.pre.flows[cur.pre.events[1].flow].hidden
    /\ db.events[1].etype = MESSAGE_EVENT
    /\ db.events[1].uuid = <<1>>
    /\ db.events[1].flow > Len(cur.pre.flows)

\* every message event is backed by a hidden flow that sends its message,
\* and no flow event carries a message
EventsBacked(d) ==
    \A e \in EventIds(d) :
        LET ev == d.events[e] IN
        /\ ev.etype = MESSAGE_EVENT =>
              /\ ev.flow \in FlowIds(d)
              /\ d.flows[ev.flow].hidden
              /\ d.flows[ev.flow].text = ev.message
        /\ ev.etype = FLOW_EVENT => ev.message = <<>>

\* C14: after any sequence of accepted event creates and updates, every
\* message event is backed by a hidden single-message flow whose content is the
\* event's current message and every flow event has no inline message; an
\* update from flow to message creates the hidden flow, an update from message
\* to message updates the existing hidden flow in place.
C14_MessageEventsBackedByHiddenFlow ==
    /\ EventsBacked(db)
    /\ (EventUpdated /\ EventHasMessage) =>
          LET before == cur.pre.events[cur.object]
              after == db.events[cur.object]
          IN /\ before.etype = FLOW_EVENT =>
                   /\ Len(db.flows) = Len(cur.pre.flows) + 1
                   /\ after.flow = Len(db.flows)
             /\ before.etype = MESSAGE_EVENT =>
                   /\ Len(db.flows) = Len(cur.pre.flows)
                   /\ after.flow = before.flow

\* a message event gets another message: its hidden flow is the same flow as
\* before and now sends the new message
C14_Witness ==
    /\ EventUpdated
    /\ cur.pre.events[cur.object].etype = MESSAGE_EVENT
    /\ db.events[cur.object].etype = MESSAGE_EVENT
    /\ db.events[cur.object].message # cur.pre.events[cur.object].message
    /\ db.events[cur.object].flow = cur.pre.events[cur.object].flow
    /\ db.flows[db.events[cur.object].flow].text = cur.data.message

\* an event write that names no existing event, by uuid or by legacy id
EventCreate ==
    EventWriteSeen /\ ~Has(cur.data, "uuid") /\ ~Has(cur.data, "event")

EventNamesCampaign == Has(cur.data, "campaign_uuid") \/ Has(cur.data, "campaign")

\* C15: an event write with no existing-event identity and no campaign
\* reference is rejected by validation and creates no event, no hidden flow and
\* no contact field.
C15_CreateNeedsCampaign ==
    (EventCreate /\ ~EventNamesCampaign) =>
        /\ Rejected
        /\ "restore_object" \notin cur.ran
        /\ db = cur.pre

ContactUpdated ==
    /\ cur.kind = "contact"
    /\ IsDict(cur.data)
    /\ Accepted
    /\ Has(cur.data, "uuid") /\ Truthy(cur.data.uuid)

\* C16: an accepted contact update changes only what the input carries: the
\* addresses are the same when neither urns nor phone is supplied; the name,
\* the language, the field values and the groups are the same when name,
\* language, fields, or both group references are omitted.
C16_UpdateKeepsOmitted ==
    ContactUpdated =>
        LET before == cur.pre.contacts[cur.object]
            after == db.contacts[cur.object]
        IN /\ (~Has(cur.data, "urns") /\ ~Has(cur.data, "phone")) => after.urns = before.urns
           /\ ~Has(cur.data, "name") => after.name = before.name
           /\ ~Has(cur.data, "language") => after.language = before.language
           /\ ~Has(cur.data, "fields") => after.fields = before.fields
           /\ (~Has(cur.data, "group_uuids") /\ ~Has(cur.data, "groups")) =>
                 after.groups = before.groups

\* an update that carries only a name, of a contact that has a language, a
\* field value and a group
C16_Witness ==
    /\ ContactUpdated
    /\ cur.data.present = {"uuid", "name"}
    /\ cur.pre.contacts[cur.object].language # <<>>
    /\ cur.pre.contacts[cur.object].fields # {}
    /\ cur.pre.contacts[cur.object].groups # {}
    /\ cur.pre.contacts[cur.object].urns # {}
    /\ db.contacts[cur.object].name # cur.pre.contacts[cur.object].name

\* the fields of the org that validate_fields accepts the key for: those whose
\* key is the supplied key, else those whose label is
FieldsValidated(d, org, k) ==
    LET byKey == {f \in FieldIds(d) : d.fields[f].org = org /\ d.fields[f].active
                                      /\ d.fields[f].key = k}
        byLabel == {f \in FieldIds(d) : d.fields[f].org = org /\ d.fields[f].active
                                        /\ d.fields[f].label = k}
    IN IF byKey # {} THEN byKey ELSE byLabel

ContactFieldsWrite ==
    /\ cur.kind = "contact"
    /\ IsDict(cur.data)
    /\ Has(cur.data, "fields")
    /\ "fields" \notin cur.data.badtype

\* C17: each key of the fields map of a contact write is resolved by key
\* first and by label only when no key matches; a key that matches neither
\* fails the write, and every key that passes validation is applied by the
\* mutation to exactly the field it resolved to.
C17_FieldKeysAppliedAsValidated ==
    ContactFieldsWrite =>
        /\ (\E p \in cur.data.fields : FieldsValidated(cur.pre, cur.org, p.key) = {}) =>
              Rejected /\ db = cur.pre
        /\ Accepted =>
              \A p \in cur.data.fields :
                 \E f \in FieldsValidated(cur.pre, cur.org, p.key) :
                    [key |-> cur.pre.fields[f].key, value |-> p.value]
                        \in db.contacts[cur.object].fields

\* a contact write by a uuid that no active contact of the org has
ContactUuidUnknown ==
    /\ cur.kind = "contact"
    /\ IsDict(cur.data)
    /\ Has(cur.data, "uuid") /\ Truthy(cur.data.uuid)
    /\ "uuid" \notin cur.data.badtype
    /\ ContactByUuid(cur.pre, cur.org, cur.data.uuid) = {}

\* C18: a contact write whose uuid matches no active contact of the org fails
\* with a not-found error on the uuid field, restore_object does not run and
\* the store is unchanged.
C18_UnknownUuidNotFound ==
    ContactUuidUnknown =>
        /\ Err("uuid", "not_found") \in cur.errors
        /\ "restore_object" \notin cur.ran
        /\ cur.crash = ""
        /\ db = cur.pre

\* the uuid is that of a released contact of the same org
C18_Witness ==
    /\ ContactUuidUnknown
    /\ \E c \in ContactIds(cur.pre) :
          /\ cur.pre.contacts[c].org = cur.org
          /\ cur.pre.contacts[c].uuid = cur.data.uuid
          /\ ~cur.pre.contacts[c].active
    /\ Rejected

\* a flow write by the uuid of a flow of the org that is not active, or a
\* contact field write by the key of a field of the org that is not active
NamesRemoved ==
    /\ IsDict(cur.data)
    /\ \/ /\ cur.kind = "flow"
          /\ Has(cur.data, "uuid") /\ Truthy(cur.data.uuid)
          /\ \E f \in FlowIds(cur.pre) :
                /\ cur.pre.flows[f].org = cur.org /\ cur.pre.flows[f].uuid = cur.data.uuid
                /\ ~cur.pre.flows[f].active
       \/ /\ cur.kind = "field"
          /\ Has(cur.data, "key") /\ Truthy(cur.data.key)
          /\ \E f \in FieldIds(cur.pre) :
                /\ cur.pre.fields[f].org = cur.org /\ cur.pre.fields[f].key = cur.data.key
                /\ ~cur.pre.fields[f].active

\* C19: an identifier that matches only an inactive entity of the org is
\* treated as not found: the write is rejected and the inactive entity is
\* neither updated nor used.
C19_InactiveIsNotFound ==
    (cur.kind \in {"flow", "field"} /\ NamesRemoved) => (Rejected /\ db = cur.pre)

\* a broadcast create or a message create that supplies raw addresses
SuppliesRawAddresses ==
    /\ IsDict(cur.data)
    /\ \/ cur.kind = "broadcast" /\ Has(cur.data, "urns") /\ Truthy(cur.data.urns)
       \/ /\ cur.kind = "msg"
          /\ \/ Has(cur.data, "urn") /\ Truthy(cur.data.urn)
             \/ Has(cur.data, "phone") /\ Truthy(cur.data.phone)

\* C20: for an anonymous org a broadcast create or a message create that
\* supplies raw addresses is rejected: no contact, broadcast or message is
\* created and nothing is dispatched.
C20_AnonRejectsRawAddresses ==
    (cur.kind \in {"broadcast", "msg"} /\ cur.org \in cur.pre.anon /\ SuppliesRawAddresses) =>
        (Rejected /\ db = cur.pre)

FlowStartAccepted == cur.kind = "flowstart" /\ IsDict(cur.data) /\ Accepted

\* the recipients the request names: its groups, its contacts by uuid under
\* contacts and under contact, and the holder of each phone number
NamedGroups ==
    IF Has(cur.data, "groups") THEN ResolveGroups(cur.pre, cur.org, cur.data.groups) ELSE {}

NamedContacts ==
    (IF Has(cur.data, "contacts")
     THEN ResolveContacts(cur.pre, cur.org, cur.data.contacts) ELSE {})
    \cup (IF Has(cur.data, "contact")
          THEN ResolveContacts(cur.pre, cur.org, cur.data.contact) ELSE {})
    \cup (IF Has(cur.data, "phone")
          THEN UNION {Holders(db, cur.org,
                              normalize_urn(TEL_SCHEME, cur.data.phone[i],
                                            OrgHasCountry(cur.pre, cur.org))) :
                         i \in 1..Len(cur.data.phone)}
          ELSE {})

\* C21: an accepted flow start hands flow.start exactly the union of the
\* groups, of the contacts named under contacts and under contact, and of one
\* contact per phone number; flow.start is not called when the union is empty.
C21_StartRecipientsAreUnion ==
    FlowStartAccepted =>
        IF NamedGroups = {} /\ NamedContacts = {}
        THEN db.starts = cur.pre.starts /\ cur.object.own = NoObject
        ELSE \E st \in db.starts :
                /\ st.flow = cur.object.own
                /\ st.groups = NamedGroups
                /\ st.contacts = NamedContacts
                /\ db.starts = cur.pre.starts \cup {st}

\* an accepted bulk action that adds or removes a label
LabelToggled ==
    /\ cur.kind = "bulk"
    /\ IsDict(cur.data)
    /\ Accepted
    /\ cur.data.action \in {"label", "unlabel"}

\* the label the action used: by uuid when a uuid is given, else by name
LabelUsed ==
    IF Has(cur.data, "label_uuid") /\ Truthy(cur.data.label_uuid)
    THEN Min(LabelByUuid(db, cur.org, cur.data.label_uuid))
    ELSE Min(LabelByName(db, cur.org, cur.data.label))

CountBefore == IF LabelUsed \in LabelIds(cur.pre) THEN cur.pre.labels[LabelUsed].count ELSE 0

\* the matched messages that gained the label, and those that lost it
Gained ==
    {m \in BulkMsgs(cur.pre, cur.org, cur.data.messages) :
        LabelUsed \in db.msgs[m].labels /\ LabelUsed \notin cur.pre.msgs[m].labels}

Lost ==
    {m \in BulkMsgs(cur.pre, cur.org, cur.data.messages) :
        LabelUsed \notin db.msgs[m].labels /\ LabelUsed \in cur.pre.msgs[m].labels}

\* of the N matched messages, the M (or K) that carried the label before
Carried ==
    {m \in BulkMsgs(cur.pre, cur.org, cur.data.messages) : LabelUsed \in cur.pre.msgs[m].labels}

CountsAreVisibleCounts ==
    \A l \in LabelIds(db) : db.labels[l].count = LabelVisibleCount(db.msgs, l)

VisibleIn(ms) == {m \in ms : cur.pre.msgs[m].visibility = Visible}

BulkApplied ==
    /\ cur.kind = "bulk"
    /\ IsDict(cur.data)
    /\ Accepted

\* the message as the action leaves it: a toggle changes its labels only, the
\* other actions are the per-message transition
AfterAction(m) ==
    CASE cur.data.action = "label" -> [m EXCEPT !.labels = @ \cup {LabelUsed}]
      [] cur.data.action = "unlabel" -> [m EXCEPT !.labels = @ \ {LabelUsed}]
      [] OTHER -> Transition(cur.data.action, m)

\* C23: an accepted bulk action transitions exactly the listed incoming
\* messages of the tenant, each by the per-message transition of the action;
\* every other message (other tenant, outgoing, not listed) is unchanged, and
\* listed ids that match no message are ignored without error.
C23_OnlyMatchedMessagesMove ==
    BulkApplied =>
        /\ DOMAIN db.msgs = DOMAIN cur.pre.msgs
        /\ \A m \in DOMAIN db.msgs :
              db.msgs[m] = IF /\ m \in cur.data.messages
                              /\ cur.pre.msgs[m].org = cur.org
                              /\ cur.pre.msgs[m].direction = Incoming
                           THEN AfterAction(cur.pre.msgs[m])
                           ELSE cur.pre.msgs[m]

\* an accepted archive that lists an incoming message of the tenant, an
\* outgoing one, one of another tenant and an unknown id: only the first moved
C23_Witness ==
    /\ BulkApplied
    /\ cur.data.action = "archive"
    /\ cur.data.messages = {1, 2, 3, 9}
    /\ cur.pre.msgs[1].visibility = Visible
    /\ db.msgs[1].visibility = Archived
    /\ db.msgs[2] = cur.pre.msgs[2]
    /\ db.msgs[3] = cur.pre.msgs[3]

\* a Broadcast create or a Message create was served
SendRequested == cur.kind \in {"broadcast", "msg"}

ClaimServed == cur.kind = "claim" /\ IsDict(cur.data)

\* the channels whose registration was issued with the code of the request
IssuedWithCode(d) ==
    {ch \in ChannelIds(d) : d.channels[ch].issued # <<>>
                            /\ d.channels[ch].issued = strip(cur.data.claim_code)}

\* C25: a channel claim is accepted only when its code is the code of a
\* pending active Channel, which it claims; a code of no active Channel is
\* rejected on claim_code; and a claim whose code was used by an earlier
\* successful claim is rejected and leaves every Channel as it was.
C25_ClaimCodeIsOneTime ==
    ClaimServed =>
        /\ Accepted =>
              /\ cur.object \in IssuedWithCode(cur.pre)
              /\ cur.pre.channels[cur.object].org = Pending
              /\ cur.pre.channels[cur.object].active
              /\ db.channels[cur.object].org = cur.org
        /\ (\A ch \in IssuedWithCode(cur.pre) : ~cur.pre.channels[ch].active)
              => "claim_code" \in ErrFields(cur.errors)
        /\ (\E ch \in IssuedWithCode(cur.pre) : cur.pre.channels[ch].org # Pending)
              => /\ "claim_code" \in ErrFields(cur.errors)
                 /\ db.channels = cur.pre.channels

\* org B repeats the code with which org A claimed a channel: it is rejected
\* and the channel keeps org A and its phone
C25_Witness ==
    /\ ClaimServed
    /\ cur.org = "B"
    /\ Truthy(cur.data.phone)
    /\ \E ch \in IssuedWithCode(cur.pre) :
          /\ cur.pre.channels[ch].org = "A"
          /\ db.channels[ch].org = "A"
          /\ db.channels[ch].address = cur.pre.channels[ch].address
    /\ Rejected

\* the error map holds an error under a field name
FieldErrors == ErrFields(cur.errors) \ {NonField} # {}

\* C27: the stages of a write run in the order per-field validators, validate,
\* restore_object, each only when the earlier ones left no error: with a
\* per-field error validate has not run and the map holds no non-field error,
\* and with any error restore_object has not run.
C27_StagesInOrder ==
    cur.kind # "idle" =>
        /\ "validate" \in cur.ran => "fields" \in cur.ran
        /\ "restore_object" \in cur.ran => "validate" \in cur.ran
        /\ FieldErrors => "validate" \notin cur.ran /\ NonField \notin ErrFields(cur.errors)
        /\ cur.errors # NoErrors => "restore_object" \notin cur.ran

\* a Contact write that gives phone and urns together, which validate would
\* refuse, and whose phone is invalid: only the per-field error is reported
C27_Witness ==
    /\ cur.kind = "contact"
    /\ IsDict(cur.data)
    /\ PhoneAndUrns
    /\ "phone" \in ErrFields(cur.errors)
    /\ NonField \notin ErrFields(cur.errors)
    /\ cur.ran = {"fields"}

\* a bulk request for a label action
LabelAction ==
    /\ cur.kind = "bulk"
    /\ IsDict(cur.data)
    /\ cur.data.action \in {"label", "unlabel"}

\* the request gives label or label_uuid as an empty string
EmptyLabelRef ==
    \/ Has(cur.data, "label") /\ ~Truthy(cur.data.label)
    \/ Has(cur.data, "label_uuid") /\ ~Truthy(cur.data.label_uuid)

\* C29: when restore_object runs for a label action, attrs['label'] is a Label
\* of the tenant (no failure on a raw string or a missing key); a request whose
\* label or label_uuid is present but empty is rejected; and a request with
\* both label and label_uuid creates no Label that it does not use.
C29_LabelResolvedBeforeToggle ==
    LabelAction =>
        /\ "restore_object" \in cur.ran =>
              /\ cur.crash = ""
              /\ LabelUsed \in LabelIds(db)
              /\ db.labels[LabelUsed].org = cur.org
        /\ (EmptyLabelRef /\ cur.crash = "") => Rejected
        /\ (Has(cur.data, "label") /\ Has(cur.data, "label_uuid") /\ cur.crash = "") =>
              \A l \in LabelIds(db) \ LabelIds(cur.pre) : "restore_object" \in cur.ran /\ l = LabelUsed

\* both requests of a race are done and were accepted
BothAccepted ==
    /\ cur.kind = "race"
    /\ \A i \in {1, 2} : /\ cur.procs[i].pc = "done"
                         /\ cur.procs[i].errors = NoErrors
                         /\ cur.procs[i].crash = ""

\* both validations ran before either restore_object
ChecksFirst ==
    /\ Len(cur.order) >= 2
    /\ cur.order[1][2] = "validate"
    /\ cur.order[2][2] = "validate"

\* the two requests name the same single normalized address
SameAddress ==
    /\ cur.kind = "race"
    /\ Cardinality(ReqAddrs(cur.procs[1].data)) = 1
    /\ ReqAddrs(cur.procs[1].data) = ReqAddrs(cur.procs[2].data)

\* C26: two creates by the same normalized address for one org, their
\* validation and get-or-create steps interleaved in any order, end with the
\* same Contact, and exactly one Contact holds the address.
C26_ConcurrentCreatesConverge ==
    (/\ BothAccepted
     /\ SameAddress
     /\ \A i \in {1, 2} : ~Truthy(cur.procs[i].data.uuid)) =>
        /\ cur.procs[1].object = cur.procs[2].object
        /\ \A a \in ReqAddrs(cur.procs[1].data) :
              Holders(db, cur.org, a) = {cur.procs[1].object}

\* two creates by an address nobody held, both validated before either
\* get-or-create, ended with one new Contact
C26_Witness ==
    /\ BothAccepted
    /\ SameAddress
    /\ \A i \in {1, 2} : ~Truthy(cur.procs[i].data.uuid)
    /\ ChecksFirst
    /\ \A a \in ReqAddrs(cur.procs[1].data) : Holders(cur.pre, cur.org, a) = {}
    /\ Len(db.contacts) = Len(cur.pre.contacts) + 1
    /\ cur.procs[1].object = Len(db.contacts)

\* two updates of different contacts that name the same address, which
\* neither contact held before
UpdatesOfTwo ==
    /\ SameAddress
    /\ \A i \in {1, 2} : Truthy(cur.procs[i].data.uuid)
    /\ cur.procs[1].data.uuid # cur.procs[2].data.uuid
    /\ \A i \in {1, 2} : \A c \in ContactByUuid(cur.pre, cur.org, cur.procs[i].data.uuid) :
          ReqAddrs(cur.procs[1].data) \cap cur.pre.contacts[c].urns = {}

====
